---- MODULE Spec2Model ----
(***************************************************************************)
(* Verification model of the wafer-guest SDK: the memory bridge            *)
(* (pack_ptr_len / unpack_ptr_len), the base64 payload codec, the metadata *)
(* and outcome wire conversions, the response helpers, the exports that    *)
(* register! generates (malloc, info, handle, lifecycle), and the boundary *)
(* call Context::send with the service clients built on it.                *)
(*                                                                         *)
(* Machine words are bit vectors (functions from bit index to 0/1, index 0 *)
(* is the least significant bit) so that i32/i64/u32 widths, sign          *)
(* extension and truncation are the ones of the source.  Text is a         *)
(* sequence of character codes.                                            *)
(***************************************************************************)
EXTENDS Integers, Sequences, FiniteSets, TLC

VARIABLES
    pc,         \* position of the running scenario
    ptr,        \* pack_ptr_len argument (i32)
    len,        \* pack_ptr_len argument (i32)
    packed,     \* pack_ptr_len result (i64)
    unpacked,   \* unpack_ptr_len result, <<ptr, len>> (i32, i32)
    input,      \* byte payload handed to base64_serde::serialize
    text,       \* the JSON string holding a base64 payload
    decoded,    \* result of base64_serde::deserialize
    msg,        \* an in-memory Message
    wireMsg,    \* the JSON document of a WasmMessage
    msgOut,     \* result of decoding wireMsg into a Message
    wireAgain,  \* the JSON document of the decoded Message, encoded again
    result,     \* an in-memory Result_
    wire,       \* the JSON document of a WasmResult
    received,   \* result of decoding wire into a Result_
    werr,       \* a WaferError under construction
    builder,    \* Option<ResponseBuilder>
    built,      \* Option<BlockResult>: what a helper or the builder returned
    calls,      \* metadata-writing calls made so far
    block,      \* the block type given to register!: what its methods do
    encoder,    \* whether serde_json::to_vec succeeds in the entry points
    heap,       \* the regions malloc has handed out, oldest first
    reply,      \* the packed i64 the last entry point returned
    last,       \* the last call of an export: its name, input and effects
    lifeLog,    \* the events Block::lifecycle has been given, oldest first
    entryCalls, \* calls of exports made so far
    outBytes,   \* the encoded bytes __wafer_write_result was given
    answer,     \* what the host import returns: the packed i64 and the bytes there
    op,         \* the operation a block called
    sent,       \* Option<Result_>: what Context::send returned
    outcome,    \* what the operation returned to the block
    reads,      \* the (ptr, len) regions the guest read after the host call
    default_page_size, \* pagination_params argument (usize)
    overflow_checks,   \* whether the build traps on arithmetic overflow
    paging      \* what pagination_params returned

bridgeVars == <<ptr, len, packed, unpacked>>
b64Vars == <<input, text, decoded>>
codecVars == <<msg, wireMsg, msgOut, wireAgain, result, wire, received>>
helperVars == <<werr, builder, built, calls>>
dispatchVars == <<block, encoder, heap, reply, last, lifeLog, entryCalls, outBytes>>
serviceVars == <<answer, op, sent, outcome, reads>>
pagingVars == <<default_page_size, overflow_checks, paging>>
vars ==
    <<pc, bridgeVars, b64Vars, codecVars, helperVars, dispatchVars, serviceVars,
      pagingVars>>

nonBridgeVars ==
    <<b64Vars, codecVars, helperVars, dispatchVars, serviceVars, pagingVars>>
nonB64Vars ==
    <<bridgeVars, codecVars, helperVars, dispatchVars, serviceVars, pagingVars>>
nonCodecVars ==
    <<bridgeVars, b64Vars, helperVars, dispatchVars, serviceVars, pagingVars>>
nonHelperVars ==
    <<bridgeVars, b64Vars, dispatchVars, serviceVars, pagingVars>>
nonDispatchVars ==
    <<bridgeVars, b64Vars, codecVars, helperVars, serviceVars, pagingVars>>
nonServiceVars ==
    <<bridgeVars, b64Vars, codecVars, helperVars, dispatchVars, pagingVars>>
nonPagingVars ==
    <<bridgeVars, b64Vars, helperVars, dispatchVars, serviceVars>>

(***************************************************************************)
(* Bit vectors                                                             *)
(***************************************************************************)
Pow2(n) == 2 ^ n

\* the w-bit vector of the natural number n (n below 2^31)
BitsOf(n, w) == [i \in 0..(w - 1) |-> IF i < 31 THEN (n \div Pow2(i)) % 2 ELSE 0]

\* the 32-bit word whose high half is hi and low half is lo (16 bits each)
Word32(hi, lo) ==
    [i \in 0..31 |-> IF i < 16 THEN (lo \div Pow2(i)) % 2
                               ELSE (hi \div Pow2(i - 16)) % 2]

\* `x as i64` for an i32 x: sign extension
SignExtend64(x) == [i \in 0..63 |-> IF i < 32 THEN x[i] ELSE x[31]]

\* `x as i32` for an i64 x: truncation to the low 32 bits
Truncate32(x) == [i \in 0..31 |-> x[i]]

\* `x << n` on a w-bit word
Shl(x, n, w) == [i \in 0..(w - 1) |-> IF i >= n THEN x[i - n] ELSE 0]

\* `x >> n` on a signed w-bit word (arithmetic shift)
Sar(x, n, w) == [i \in 0..(w - 1) |-> IF i + n <= w - 1 THEN x[i + n] ELSE x[w - 1]]

BitAnd(x, y, w) == [i \in 0..(w - 1) |-> IF x[i] = 1 /\ y[i] = 1 THEN 1 ELSE 0]

BitOr(x, y, w) == [i \in 0..(w - 1) |-> IF x[i] = 1 \/ y[i] = 1 THEN 1 ELSE 0]

\* the i64 literal 0xFFFF_FFFF
Mask32 == [i \in 0..63 |-> IF i < 32 THEN 1 ELSE 0]

Zero32 == [i \in 0..31 |-> 0]
Zero64 == [i \in 0..63 |-> 0]

\* Ok(bytes) of base64_decode
DecodeOk(bytes) == [ok |-> TRUE, bytes |-> bytes, bad |-> 0]
\* Err(format!("invalid base64 character: {}", c)) of base64_decode
DecodeErr(c) == [ok |-> FALSE, bytes |-> <<>>, bad |-> c]

(***************************************************************************)
(* Memory bridge: context.rs                                               *)
(***************************************************************************)
\* a pack that forgets the 0xFFFF_FFFF mask on the sign-extended length
pack_ptr_len_nomask(p, l) ==
    BitOr(Shl(SignExtend64(p), 32, 64), SignExtend64(l), 64)

\* a pack that shifts the pointer by 16 instead of 32
pack_ptr_len_shift16(p, l) ==
    BitOr(Shl(SignExtend64(p), 16, 64), BitAnd(SignExtend64(l), Mask32, 64), 64)

pack_ptr_len(p, l) ==
    BitOr(Shl(SignExtend64(p), 32, 64), BitAnd(SignExtend64(l), Mask32, 64), 64)

unpack_ptr_len(w) ==
    <<Truncate32(Sar(w, 32, 64)), Truncate32(BitAnd(w, Mask32, 64))>>

\* 16-bit halves the sample words are built from
Halves == {0, 1, 16, 32767, 32768, 48879, 57005, 65535}
Words32 == {Word32(h, l) : h \in Halves, l \in Halves}

DEADBEEF == Word32(57005, 48879)
Sixteen == Word32(0, 16)
TopBit(x) == x[31]

(***************************************************************************)
(* Base64 payload codec: types.rs, mod base64_serde                        *)
(***************************************************************************)
\* longest byte payload and longest wire string the scenarios draw
MaxBytesLen == 4
MaxTextLen == 4

SampleBytes == {0, 77, 251, 255}
\* 'A', 'z', '/', '=', '-', U+00E9
SampleChars == {65, 122, 47, 61, 45, 233}

SeqsUpTo(S, n) == UNION {[1..k -> S] : k \in 0..n}

\* b"ABCDEFGHIJKLMNOPQRSTUVWXYZabcdefghijklmnopqrstuvwxyz0123456789+/"
CHARS ==
    [i \in 0..63 |-> IF i < 26 THEN 65 + i
                     ELSE IF i < 52 THEN 97 + (i - 26)
                     ELSE IF i < 62 THEN 48 + (i - 52)
                     ELSE IF i = 62 THEN 43 ELSE 47]

PadChar == 61

\* input.chunks(3): the k-th chunk (k from 0) of a byte sequence
Chunk(bytes, k) ==
    SubSeq(bytes, 3 * k + 1, IF 3 * k + 3 <= Len(bytes) THEN 3 * k + 3 ELSE Len(bytes))

NumChunks(bytes) == (Len(bytes) + 2) \div 3

\* the four characters the loop body of base64_encode pushes for one chunk
EncodeChunk(chunk) ==
    LET b0 == chunk[1]
        b1 == IF Len(chunk) > 1 THEN chunk[2] ELSE 0
        b2 == IF Len(chunk) > 2 THEN chunk[3] ELSE 0
        triple == (b0 * 65536) + (b1 * 256) + b2
    IN  << CHARS[(triple \div Pow2(18)) % 64],
           CHARS[(triple \div Pow2(12)) % 64],
           IF Len(chunk) > 1 THEN CHARS[(triple \div Pow2(6)) % 64] ELSE PadChar,
           IF Len(chunk) > 2 THEN CHARS[triple % 64] ELSE PadChar >>

RECURSIVE EncodeFrom(_, _)
EncodeFrom(bytes, k) ==
    IF k >= NumChunks(bytes) THEN <<>>
    ELSE EncodeChunk(Chunk(bytes, k)) \o EncodeFrom(bytes, k + 1)

\* an encoder that emits no '=' padding for a short final chunk
base64_encode_nopad(bytes) ==
    LET full == EncodeFrom(bytes, 0)
    IN  SelectSeq(full, LAMBDA c : c # PadChar)

base64_encode(bytes) == EncodeFrom(bytes, 0)

\* input.trim_end_matches('=')
RECURSIVE TrimEndPad(_)
TrimEndPad(s) ==
    IF Len(s) > 0 /\ s[Len(s)] = PadChar THEN TrimEndPad(SubSeq(s, 1, Len(s) - 1))
    ELSE s

\* the match on c in base64_decode: the 6-bit value, or -1 for the `_` arm
CharVal(c) ==
    IF c >= 65 /\ c <= 90 THEN c - 65
    ELSE IF c >= 97 /\ c <= 122 THEN (c - 97) + 26
    ELSE IF c >= 48 /\ c <= 57 THEN (c - 48) + 52
    ELSE IF c = 43 THEN 62
    ELSE IF c = 47 THEN 63
    ELSE -1

\* ((buf >> bits) & 0xFF) as u8, buf a u32
ByteAt(buf, bits) ==
    LET bit(i) == IF i <= 31 THEN buf[i] ELSE 0
    IN  bit(bits) + 2 * bit(bits + 1) + 4 * bit(bits + 2) + 8 * bit(bits + 3)
        + 16 * bit(bits + 4) + 32 * bit(bits + 5) + 64 * bit(bits + 6)
        + 128 * bit(bits + 7)

\* the loop of base64_decode from character i on, with the loop state
\* buf (u32), bits (u32) and output
RECURSIVE DecodeLoop(_, _, _, _, _)
DecodeLoop(s, i, buf, bits, output) ==
    IF i > Len(s) THEN DecodeOk(output)
    ELSE LET val == CharVal(s[i])
         IN  IF val = -1 THEN DecodeErr(s[i])
             ELSE LET buf2 == BitOr(Shl(buf, 6, 32), BitsOf(val, 32), 32)
                      bits2 == bits + 6
                  IN  IF bits2 >= 8
                      THEN DecodeLoop(s, i + 1, buf2, bits2 - 8,
                                      Append(output, ByteAt(buf2, bits2 - 8)))
                      ELSE DecodeLoop(s, i + 1, buf2, bits2, output)

\* the loop of a decoder that skips a character outside the alphabet
RECURSIVE DecodeLoopSkip(_, _, _, _, _)
DecodeLoopSkip(s, i, buf, bits, output) ==
    IF i > Len(s) THEN DecodeOk(output)
    ELSE LET val == CharVal(s[i])
         IN  IF val = -1 THEN DecodeLoopSkip(s, i + 1, buf, bits, output)
             ELSE LET buf2 == BitOr(Shl(buf, 6, 32), BitsOf(val, 32), 32)
                      bits2 == bits + 6
                  IN  IF bits2 >= 8
                      THEN DecodeLoopSkip(s, i + 1, buf2, bits2 - 8,
                                          Append(output, ByteAt(buf2, bits2 - 8)))
                      ELSE DecodeLoopSkip(s, i + 1, buf2, bits2, output)

base64_decode_skip(s) == DecodeLoopSkip(TrimEndPad(s), 1, Zero32, 0, <<>>)

\* a decoder that takes only strings of whole groups of four characters
base64_decode_strict(s) ==
    IF Len(s) % 4 # 0 THEN DecodeErr(PadChar)
    ELSE DecodeLoop(TrimEndPad(s), 1, Zero32, 0, <<>>)

base64_decode(s) == DecodeLoop(TrimEndPad(s), 1, Zero32, 0, <<>>)

\* base64_serde::serialize: the JSON string written for a payload
serialize(bytes) == base64_encode(bytes)

\* base64_serde::deserialize of a JSON string
deserialize(s) == IF Len(s) = 0 THEN DecodeOk(<<>>) ELSE base64_decode(s)


InAlphabet(c) == CharVal(c) # -1

\* the number of '=' a standard encoding of n bytes ends with
PadCount(n) == (3 - (n % 3)) % 3

(***************************************************************************)
(* In-memory data model: types.rs                                          *)
(***************************************************************************)
\* Option<T>: None and Some(x)
None == <<>>
Some(x) == <<x>>
IsSome(o) == o # None
Unwrap(o) == o[1]

\* HashMap<String, String> is a function from its keys to their values
EmptyMap == <<>>

\* HashMap::insert: a present key has its value overwritten
Insert(m, k, v) == [x \in (DOMAIN m) \cup {k} |-> IF x = k THEN v ELSE m[x]]

\* an insert that keeps the value of a key already present
InsertKeepFirst(m, k, v) ==
    [x \in (DOMAIN m) \cup {k} |-> IF x \in DOMAIN m THEN m[x] ELSE v]

\* Message::new
Message_new(kind, data) == [kind |-> kind, data |-> data, meta |-> EmptyMap]

\* Message::set_meta
Message_set_meta(m, key, value) == [m EXCEPT !.meta = Insert(m.meta, key, value)]

\* Response::new
Response_new(data) == [data |-> data, meta |-> EmptyMap]

\* WaferError::new
WaferError_new(code, message) == [code |-> code, message |-> message, meta |-> EmptyMap]

\* WaferError::with_meta
WaferError_with_meta(e, key, value) == [e EXCEPT !.meta = Insert(e.meta, key, value)]

\* Message::cont
Message_cont(m) ==
    [action |-> "Continue", response |-> None, error |-> None, message |-> Some(m)]

\* Message::respond
Message_respond(m, r) ==
    [action |-> "Respond", response |-> Some(r), error |-> None, message |-> Some(m)]

\* Message::drop_msg
Message_drop_msg(m) ==
    [action |-> "Drop", response |-> None, error |-> None, message |-> Some(m)]

\* Message::err
Message_err(m, e) ==
    [action |-> "Error", response |-> None, error |-> Some(e), message |-> Some(m)]

\* Result_::continue_with
Result_continue_with(m) ==
    [action |-> "Continue", response |-> None, error |-> None, message |-> Some(m)]

\* Result_::error
Result_error(e) ==
    [action |-> "Error", response |-> None, error |-> Some(e), message |-> None]

\* Action::as_str
Action_as_str(a) ==
    CASE a = "Continue" -> "continue"
      [] a = "Respond" -> "respond"
      [] a = "Drop" -> "drop"
      [] a = "Error" -> "error"

(***************************************************************************)
(* Wire format: types.rs.  A JSON document is a function from the names    *)
(* of the members it has to their values; a member that is left out is     *)
(* not in its domain, a member written as null has the value JNull.        *)
(***************************************************************************)
JNull == [null |-> TRUE]
\* bytes that are no JSON document
Garbage == [garbage |-> TRUE]
Has(doc, f) == f \in DOMAIN doc
EmptyDoc == <<>>
Member(f, v) == f :> v

Ok(v) == [ok |-> TRUE, val |-> v, diag |-> ""]
Err(d) == [ok |-> FALSE, val |-> <<>>, diag |-> d]

\* std::result::Result<T, WaferError>
ROk(v) == [ok |-> TRUE, val |-> v]
RErr(e) == [ok |-> FALSE, err |-> e]

\* meta.iter().map(|(k, v)| [k.clone(), v.clone()]).collect(): the entries
\* of the map, once each, in the order the HashMap iterates, which is any
MetaOrders(m) ==
    LET n == Cardinality(DOMAIN m)
        orders == {g \in [1..n -> DOMAIN m] : \A i, j \in 1..n : i # j => g[i] # g[j]}
    IN  {[i \in 1..n |-> <<g[i], m[g[i]]>>] : g \in orders}

\* for pair in meta { meta.insert(pair[0].clone(), pair[1].clone()) }
RECURSIVE FoldMetaFrom(_, _, _)
FoldMetaFrom(pairs, i, m) ==
    IF i > Len(pairs) THEN m
    ELSE FoldMetaFrom(pairs, i + 1, Insert(m, pairs[i][1], pairs[i][2]))

\* a fold in which the first pair of a key wins
RECURSIVE FoldMetaFromKeepFirst(_, _, _)
FoldMetaFromKeepFirst(pairs, i, m) ==
    IF i > Len(pairs) THEN m
    ELSE FoldMetaFromKeepFirst(pairs, i + 1, InsertKeepFirst(m, pairs[i][1], pairs[i][2]))

FoldMetaKeepFirst(pairs) == FoldMetaFromKeepFirst(pairs, 1, EmptyMap)

FoldMeta(pairs) == FoldMetaFrom(pairs, 1, EmptyMap)

\* Message::to_wasm: the WasmMessage values it can return
Message_to_wasm(m) ==
    {[kind |-> m.kind, data |-> m.data, meta |-> w] : w \in MetaOrders(m.meta)}

\* a from_wasm that leaves the payload behind
Message_from_wasm_nodata(wm) ==
    [kind |-> wm.kind, data |-> <<>>, meta |-> FoldMeta(wm.meta)]

\* Message::from_wasm
Message_from_wasm(wm) ==
    [kind |-> wm.kind, data |-> wm.data, meta |-> FoldMeta(wm.meta)]

\* #[derive(Serialize)] of WasmMessage
SerWasmMessage(wm) ==
    [kind |-> wm.kind, data |-> serialize(wm.data), meta |-> wm.meta]

\* #[derive(Deserialize)] of WasmMessage: kind is required, data and meta
\* default when left out
DeWasmMessage(doc) ==
    IF Has(doc, "garbage") THEN Err("expected value")
    ELSE IF ~Has(doc, "kind") THEN Err("missing field kind")
    ELSE LET data == IF Has(doc, "data") THEN deserialize(doc.data) ELSE DecodeOk(<<>>)
             meta == IF Has(doc, "meta") THEN doc.meta ELSE <<>>
         IN  IF ~data.ok THEN Err("invalid base64 character")
             ELSE Ok([kind |-> doc.kind, data |-> data.bytes, meta |-> meta])

\* the WasmResponse of a Response, for one order of its meta
ToWasmResponses(r) == {[data |-> r.data, meta |-> w] : w \in MetaOrders(r.meta)}

\* the WasmError of a WaferError, for one order of its meta
ToWasmErrors(e) ==
    {[code |-> e.code, message |-> e.message, meta |-> w] : w \in MetaOrders(e.meta)}

\* Result_::to_wasm: the WasmResult values it can return
Result_to_wasm(r) ==
    {[action |-> Action_as_str(r.action), response |-> resp, error |-> err] :
        resp \in (IF r.response = None THEN {None}
                  ELSE {Some(w) : w \in ToWasmResponses(Unwrap(r.response))}),
        err \in (IF r.error = None THEN {None}
                 ELSE {Some(w) : w \in ToWasmErrors(Unwrap(r.error))})}

\* a from_wasm without the "drop" arm
Result_from_wasm_nodrop(wr) ==
    LET action == CASE wr.action = "continue" -> "Continue"
                    [] wr.action = "respond" -> "Respond"
                    [] wr.action = "error" -> "Error"
                    [] OTHER -> "Continue"
        response == IF wr.response = None THEN None
                    ELSE Some([data |-> Unwrap(wr.response).data,
                               meta |-> FoldMeta(Unwrap(wr.response).meta)])
        error == IF wr.error = None THEN None
                 ELSE Some([code |-> Unwrap(wr.error).code,
                            message |-> Unwrap(wr.error).message,
                            meta |-> FoldMeta(Unwrap(wr.error).meta)])
    IN  [action |-> action, response |-> response, error |-> error, message |-> None]

\* a from_wasm that also takes the capitalised names of the actions
Result_from_wasm_anycase(wr) ==
    LET action == CASE wr.action \in {"continue", "Continue"} -> "Continue"
                    [] wr.action \in {"respond", "Respond"} -> "Respond"
                    [] wr.action \in {"drop", "Drop"} -> "Drop"
                    [] wr.action \in {"error", "Error"} -> "Error"
                    [] OTHER -> "Continue"
        response == IF wr.response = None THEN None
                    ELSE Some([data |-> Unwrap(wr.response).data,
                               meta |-> FoldMeta(Unwrap(wr.response).meta)])
        error == IF wr.error = None THEN None
                 ELSE Some([code |-> Unwrap(wr.error).code,
                            message |-> Unwrap(wr.error).message,
                            meta |-> FoldMeta(Unwrap(wr.error).meta)])
    IN  [action |-> action, response |-> response, error |-> error, message |-> None]

\* Result_::from_wasm
Result_from_wasm(wr) ==
    LET action == CASE wr.action = "continue" -> "Continue"
                    [] wr.action = "respond" -> "Respond"
                    [] wr.action = "drop" -> "Drop"
                    [] wr.action = "error" -> "Error"
                    [] OTHER -> "Continue"
        response == IF wr.response = None THEN None
                    ELSE Some([data |-> Unwrap(wr.response).data,
                               meta |-> FoldMeta(Unwrap(wr.response).meta)])
        error == IF wr.error = None THEN None
                 ELSE Some([code |-> Unwrap(wr.error).code,
                            message |-> Unwrap(wr.error).message,
                            meta |-> FoldMeta(Unwrap(wr.error).meta)])
    IN  [action |-> action, response |-> response, error |-> error, message |-> None]

\* #[derive(Serialize)] of WasmResponse: meta is skipped when empty
SerWasmResponse(r) ==
    Member("data", serialize(r.data))
        @@ (IF r.meta = <<>> THEN EmptyDoc ELSE Member("meta", r.meta))

\* #[derive(Serialize)] of WasmError: meta is skipped when empty
SerWasmError(e) ==
    Member("code", e.code) @@ Member("message", e.message)
        @@ (IF e.meta = <<>> THEN EmptyDoc ELSE Member("meta", e.meta))

\* a serializer of WasmResult that writes null for None
SerWasmResultNull(wr) ==
    Member("action", wr.action)
        @@ (IF wr.response = None THEN Member("response", JNull)
            ELSE Member("response", SerWasmResponse(Unwrap(wr.response))))
        @@ (IF wr.error = None THEN Member("error", JNull)
            ELSE Member("error", SerWasmError(Unwrap(wr.error))))

\* #[derive(Serialize)] of WasmResult: response and error are skipped
\* when None
SerWasmResult(wr) ==
    Member("action", wr.action)
        @@ (IF wr.response = None THEN EmptyDoc
            ELSE Member("response", SerWasmResponse(Unwrap(wr.response))))
        @@ (IF wr.error = None THEN EmptyDoc
            ELSE Member("error", SerWasmError(Unwrap(wr.error))))

\* a deserializer of WasmResponse that takes the data string as the payload
DeWasmResponse_rawdata(doc) ==
    Ok([data |-> IF Has(doc, "data") THEN doc.data ELSE <<>>,
        meta |-> IF Has(doc, "meta") THEN doc.meta ELSE <<>>])

\* #[derive(Deserialize)] of WasmResponse: data and meta default
DeWasmResponse(doc) ==
    LET data == IF Has(doc, "data") THEN deserialize(doc.data) ELSE DecodeOk(<<>>)
        meta == IF Has(doc, "meta") THEN doc.meta ELSE <<>>
    IN  IF ~data.ok THEN Err("invalid base64 character")
        ELSE Ok([data |-> data.bytes, meta |-> meta])

\* #[derive(Deserialize)] of WasmError: code and message are required
DeWasmError(doc) ==
    IF ~Has(doc, "code") THEN Err("missing field code")
    ELSE IF ~Has(doc, "message") THEN Err("missing field message")
    ELSE Ok([code |-> doc.code, message |-> doc.message,
             meta |-> IF Has(doc, "meta") THEN doc.meta ELSE <<>>])

\* #[derive(Deserialize)] of WasmResult: action is required; an Option
\* member is None when it is left out or null
DeWasmResult(doc) ==
    IF Has(doc, "garbage") THEN Err("expected value")
    ELSE IF ~Has(doc, "action") THEN Err("missing field action")
    ELSE LET response == IF ~Has(doc, "response") \/ doc.response = JNull THEN Ok(None)
                         ELSE LET r == DeWasmResponse(doc.response)
                              IN  IF r.ok THEN Ok(Some(r.val)) ELSE r
             error == IF ~Has(doc, "error") \/ doc.error = JNull THEN Ok(None)
                      ELSE LET e == DeWasmError(doc.error)
                           IN  IF e.ok THEN Ok(Some(e.val)) ELSE e
         IN  IF ~response.ok THEN response
             ELSE IF ~error.ok THEN error
             ELSE Ok([action |-> doc.action, response |-> response.val, error |-> error.val])

\* serde_json::to_vec(&msg.to_wasm()): the documents a Message is sent as
EncodeMessageDocs(m) == {SerWasmMessage(wm) : wm \in Message_to_wasm(m)}

\* serde_json::from_slice::<WasmMessage> and Message::from_wasm
DecodeMessageDoc(doc) ==
    LET wm == DeWasmMessage(doc)
    IN  IF wm.ok THEN Ok(Message_from_wasm(wm.val)) ELSE wm

\* serde_json::to_vec(&result.to_wasm()): the documents a Result_ is sent as
EncodeResultDocs(r) == {SerWasmResult(wr) : wr \in Result_to_wasm(r)}

\* the match at the end of Context::send: the decoded Result_, or an Error
\* result with code decode_error
DecodeResultDoc(doc) ==
    LET wr == DeWasmResult(doc)
    IN  IF wr.ok THEN Result_from_wasm(wr.val)
        ELSE Result_error(WaferError_new("decode_error", wr.diag))

(***************************************************************************)
(* Response helpers: helpers.rs.  Metadata is a Vec<MetaEntry> here, a     *)
(* sequence of [key, value] entries.                                       *)
(***************************************************************************)
META_RESP_STATUS == "resp.status"
META_RESP_CONTENT_TYPE == "resp.content_type"
META_RESP_HEADER_PREFIX == "resp.header."
META_RESP_COOKIE_PREFIX == "resp.set_cookie."

MetaEntry(key, value) == [key |-> key, value |-> value]

\* Message::respond_with, as the data model describes a Respond outcome
respond_with(m, r) ==
    [action |-> "Respond", response |-> Some(r), error |-> None, message |-> Some(m)]

\* helpers::respond
respond(m, status, data, content_type) ==
    LET meta0 == <<MetaEntry(META_RESP_STATUS, ToString(status))>>
        meta == IF content_type # ""
                THEN Append(meta0, MetaEntry(META_RESP_CONTENT_TYPE, content_type))
                ELSE meta0
    IN  respond_with(m, [data |-> data, meta |-> meta])

\* helpers::error
error(m, status, err_code, err_message) ==
    [action |-> "Error",
     error |-> Some([code |-> err_code, message |-> err_message,
                     meta |-> <<MetaEntry(META_RESP_STATUS, ToString(status))>>]),
     response |-> None,
     message |-> Some(m)]

\* ResponseBuilder::new
ResponseBuilder_new(m, status) ==
    [msg |-> m, status |-> status,
     meta |-> <<MetaEntry(META_RESP_STATUS, ToString(status))>>,
     cookie_count |-> 0]

\* a set_cookie that does not count the cookie
ResponseBuilder_set_cookie_nocount(b, cookie) ==
    [b EXCEPT !.meta = Append(b.meta,
                  MetaEntry(META_RESP_COOKIE_PREFIX \o ToString(b.cookie_count), cookie))]

\* ResponseBuilder::set_cookie
ResponseBuilder_set_cookie(b, cookie) ==
    [b EXCEPT !.meta = Append(b.meta,
                  MetaEntry(META_RESP_COOKIE_PREFIX \o ToString(b.cookie_count), cookie)),
              !.cookie_count = b.cookie_count + 1]

\* ResponseBuilder::set_header
ResponseBuilder_set_header(b, key, value) ==
    [b EXCEPT !.meta = Append(b.meta, MetaEntry(META_RESP_HEADER_PREFIX \o key, value))]

\* ResponseBuilder::json; encoded is the outcome of serde_json::to_vec(data)
ResponseBuilder_json(b, encoded) ==
    IF encoded.ok
    THEN respond_with(b.msg,
             [data |-> encoded.val,
              meta |-> Append(b.meta, MetaEntry(META_RESP_CONTENT_TYPE, "application/json"))])
    ELSE error(b.msg, 500, "Internal", encoded.diag)

\* ResponseBuilder::body
ResponseBuilder_body(b, data, content_type) ==
    respond_with(b.msg,
        [data |-> data,
         meta |-> IF content_type # ""
                  THEN Append(b.meta, MetaEntry(META_RESP_CONTENT_TYPE, content_type))
                  ELSE b.meta])

(***************************************************************************)
(* The exports register! generates: lib.rs.  The heap is the sequence of   *)
(* regions malloc has handed out; a region is never given back             *)
(* (mem::forget).  A serialized document is held with its length in bytes. *)
(***************************************************************************)
\* the address of the first region the allocator hands out
HeapBase == 1048576
\* Vec::<u8>::with_capacity(0).as_mut_ptr(): no allocation, the dangling
\* pointer of an alignment of one
Dangling == 1
\* the content of a region nothing was copied into
Uninit == [uninit |-> TRUE]

HeapTop(h) == IF h = <<>> THEN HeapBase ELSE h[Len(h)].ptr + h[Len(h)].size

\* malloc: the pointer returned and the heap after the call
malloc(h, size) ==
    IF size = 0 THEN [ptr |-> Dangling, heap |-> h]
    ELSE [ptr |-> HeapTop(h),
          heap |-> Append(h, [ptr |-> HeapTop(h), size |-> size, data |-> Uninit])]

\* a __wafer_write_result that packs the length where the pointer goes
wafer_write_result_swapped(h, data) ==
    LET a == malloc(h, data.len)
    IN  [ret |-> pack_ptr_len(BitsOf(data.len, 32), BitsOf(a.ptr, 32)),
         heap |-> IF data.len = 0 THEN a.heap
                  ELSE [a.heap EXCEPT ![Len(a.heap)].data = data.doc]]

\* a __wafer_write_result that writes into the last region handed out when
\* its size fits
wafer_write_result_reuse(h, data) ==
    IF h # <<>> /\ h[Len(h)].size = data.len
    THEN [ret |-> pack_ptr_len(BitsOf(h[Len(h)].ptr, 32), BitsOf(data.len, 32)),
          heap |-> [h EXCEPT ![Len(h)].data = data.doc]]
    ELSE LET a == malloc(h, data.len)
         IN  [ret |-> pack_ptr_len(BitsOf(a.ptr, 32), BitsOf(data.len, 32)),
              heap |-> IF data.len = 0 THEN a.heap
                       ELSE [a.heap EXCEPT ![Len(a.heap)].data = data.doc]]

\* __wafer_write_result: data is copied into a fresh region
wafer_write_result(h, data) ==
    LET a == malloc(h, data.len)
    IN  [ret |-> pack_ptr_len(BitsOf(a.ptr, 32), BitsOf(data.len, 32)),
         heap |-> IF data.len = 0 THEN a.heap
                  ELSE [a.heap EXCEPT ![Len(a.heap)].data = data.doc]]

\* the bytes of a JSON string without escapes
StrLen(s) == Len(s) + 2

\* the bytes of a Vec<[String; 2]>
RECURSIVE PairsLenFrom(_, _)
PairsLenFrom(pairs, i) ==
    IF i > Len(pairs) THEN 0
    ELSE StrLen(pairs[i][1]) + StrLen(pairs[i][2]) + 3
         + (IF i < Len(pairs) THEN 1 ELSE 0) + PairsLenFrom(pairs, i + 1)

PairsLen(pairs) == 2 + PairsLenFrom(pairs, 1)

\* the bytes of a serialized WasmResponse
ResponseLen(doc) ==
    1 + 7 + StrLen(doc.data)
      + (IF Has(doc, "meta") THEN 8 + PairsLen(doc.meta) ELSE 0) + 1

\* the bytes of a serialized WasmError
ErrorLen(doc) ==
    1 + 7 + StrLen(doc.code) + 11 + StrLen(doc.message)
      + (IF Has(doc, "meta") THEN 8 + PairsLen(doc.meta) ELSE 0) + 1

\* the bytes of a serialized WasmResult
ResultLen(doc) ==
    1 + 9 + StrLen(doc.action)
      + (IF Has(doc, "response") THEN 12 + ResponseLen(doc.response) ELSE 0)
      + (IF Has(doc, "error") THEN 9 + ErrorLen(doc.error) ELSE 0) + 1

\* serde_json::to_vec: the bytes, or an error when the encoder fails
to_vec(enc, doc, n) ==
    IF enc = "ok" THEN Ok([doc |-> doc, len |-> n]) ELSE Err("encode failure")

\* .unwrap_or_default(): the empty Vec for an error
unwrap_or_default(r) == IF r.ok THEN r.val ELSE [doc |-> <<>>, len |-> 0]

\* the WasmResult the entry points build for bytes they cannot decode
DecodeErrorResult(diag) ==
    [action |-> "error", response |-> None,
     error |-> Some([code |-> "decode_error", message |-> diag, meta |-> <<>>])]

\* the WasmResult of a success acknowledgement
ContinueResult == [action |-> "continue", response |-> None, error |-> None]

\* InstanceMode::as_str
InstanceMode_as_str(mode) ==
    CASE mode = "PerNode" -> "per-node"
      [] mode = "Singleton" -> "singleton"
      [] mode = "PerChain" -> "per-chain"
      [] mode = "PerExecution" -> "per-execution"

\* BlockInfo::to_wasm
BlockInfo_to_wasm(bi) ==
    [name |-> bi.name, version |-> bi.version, interface |-> bi.interface,
     summary |-> bi.summary,
     instance_mode |-> InstanceMode_as_str(bi.instance_mode),
     allowed_modes |-> [i \in 1..Len(bi.allowed_modes) |->
                           InstanceMode_as_str(bi.allowed_modes[i])]]

\* the bytes of a Vec<String>
RECURSIVE StrsLenFrom(_, _)
StrsLenFrom(strs, i) ==
    IF i > Len(strs) THEN 0
    ELSE StrLen(strs[i]) + (IF i < Len(strs) THEN 1 ELSE 0) + StrsLenFrom(strs, i + 1)

\* the bytes of a serialized WasmBlockInfo: every member is written
InfoLen(doc) ==
    1 + 7 + StrLen(doc.name) + 11 + StrLen(doc.version)
      + 13 + StrLen(doc.interface) + 11 + StrLen(doc.summary)
      + 17 + StrLen(doc.instance_mode)
      + 17 + 2 + StrsLenFrom(doc.allowed_modes, 1) + 1

\* LifecycleType::parse
LifecycleType_parse(s) ==
    CASE s = "init" -> Some("Init")
      [] s = "start" -> Some("Start")
      [] s = "stop" -> Some("Stop")
      [] OTHER -> None

\* #[derive(Deserialize)] of WasmLifecycleEvent: "type" is required, data
\* defaults when left out
DeWasmLifecycleEvent(doc) ==
    IF Has(doc, "garbage") THEN Err("expected value")
    ELSE IF ~Has(doc, "type") THEN Err("missing field type")
    ELSE LET data == IF Has(doc, "data") THEN deserialize(doc.data) ELSE DecodeOk(<<>>)
         IN  IF ~data.ok THEN Err("invalid base64 character")
             ELSE Ok([event_type |-> doc.type, data |-> data.bytes])

\* LifecycleEvent::from_wasm
LifecycleEvent_from_wasm(wle) ==
    LET t == LifecycleType_parse(wle.event_type)
    IN  IF t = None THEN None
        ELSE Some([event_type |-> Unwrap(t), data |-> wle.data])

\* Block::info of the registered block type
BlockInfoOf(b) ==
    [name |-> "echo", version |-> "0.1.0", interface |-> "http", summary |-> "",
     instance_mode |-> "PerNode", allowed_modes |-> b.modes]

\* <$block_ty as Default>::default(): a new instance of the block type
Default_default(b) == [b EXCEPT !.initialized = FALSE]

\* Block::handle of the registered block type: the outcome the instance b
\* returns for the message it is given
BlockHandle(b, m) ==
    LET m2 == Message_set_meta(m, "x", "200")
    IN  CASE b.handle = "cont" -> Message_cont(m2)
          [] b.handle = "ready" ->
                 IF b.initialized
                 THEN Message_respond(m2, [data |-> m.data, meta |-> EmptyMap])
                 ELSE Message_err(m2, WaferError_new("not_initialized", "init first"))
          [] b.handle = "respond" ->
                 Message_respond(m2, [data |-> m.data, meta |-> "resp.status" :> "200"])
          [] b.handle = "drop" -> Message_drop_msg(m2)
          [] b.handle = "err" ->
                 Message_err(m2, WaferError_with_meta(
                     WaferError_new("not_found", "gone"), "resp.status", "404"))

\* Block::lifecycle of the registered block type: the default
\* implementation returns Ok(()) (block.rs), an overriding one here
\* refuses to stop, another one notes an init in the instance
BlockLifecycle(b, event) ==
    IF b.lifecycle \in {"default", "flag"} THEN ROk(<<>>)
    ELSE IF event.event_type = "Stop"
         THEN RErr(WaferError_with_meta(
                       WaferError_new("busy", "cannot stop"), "retry", "soon"))
         ELSE ROk(<<>>)

\* the instance b after its lifecycle was given the event (a Cell in the
\* block, written through &self)
BlockAfterLifecycle(b, event) ==
    IF b.lifecycle = "flag" /\ event.event_type = "Init"
    THEN [b EXCEPT !.initialized = TRUE]
    ELSE b

\* the export info: what it returns and the heap after the call
info(b, enc, h) ==
    LET wasm_info == BlockInfo_to_wasm(BlockInfoOf(Default_default(b)))
        data == to_vec(enc, wasm_info, InfoLen(wasm_info))
    IN  IF data.ok THEN wafer_write_result(h, data.val)
        ELSE [ret |-> Zero64, heap |-> h]

\* a handle that returns 0 for bytes it cannot decode
handle_nullondecode(b, enc, h, doc) ==
    LET wasm_msg == DeWasmMessage(doc)
    IN  IF ~wasm_msg.ok
        THEN {[ret |-> Zero64, heap |-> h, invoked |-> <<>>]}
        ELSE LET m == Message_from_wasm(wasm_msg.val)
             IN  {LET d == SerWasmResult(wr)
                      w == wafer_write_result(h, [doc |-> d, len |-> ResultLen(d)])
                  IN  [ret |-> w.ret, heap |-> w.heap, invoked |-> <<m>>] :
                     wr \in Result_to_wasm(BlockHandle(Default_default(b), m))}

\* a handle that gives the message to the block a second time when the
\* block answers Continue
handle_twice(b, enc, h, doc) ==
    LET wasm_msg == DeWasmMessage(doc)
    IN  IF ~wasm_msg.ok
        THEN LET d == SerWasmResult(DecodeErrorResult(wasm_msg.diag))
                 w == wafer_write_result(h, [doc |-> d, len |-> ResultLen(d)])
             IN  {[ret |-> w.ret, heap |-> w.heap, invoked |-> <<>>]}
        ELSE LET m == Message_from_wasm(wasm_msg.val)
                 first == BlockHandle(Default_default(b), m)
             IN  {LET d == SerWasmResult(wr)
                      w == wafer_write_result(h, [doc |-> d, len |-> ResultLen(d)])
                  IN  [ret |-> w.ret, heap |-> w.heap,
                       invoked |-> IF first.action = "Continue" THEN <<m, m>> ELSE <<m>>] :
                     wr \in Result_to_wasm(first)}

\* the export handle: what it returns, the heap after the call and the
\* messages Block::handle was invoked with
handle(b, enc, h, doc) ==
    LET wasm_msg == DeWasmMessage(doc)
    IN  IF ~wasm_msg.ok
        THEN LET err_result == SerWasmResult(DecodeErrorResult(wasm_msg.diag))
                 data == unwrap_or_default(
                             to_vec(enc, err_result, ResultLen(err_result)))
                 w == wafer_write_result(h, data)
             IN  {[ret |-> w.ret, heap |-> w.heap, invoked |-> <<>>]}
        ELSE LET m == Message_from_wasm(wasm_msg.val)
                 res == BlockHandle(Default_default(b), m)
             IN  {LET wasm_result == SerWasmResult(wr)
                      data == to_vec(enc, wasm_result, ResultLen(wasm_result))
                      w == wafer_write_result(h, data.val)
                  IN  IF data.ok
                      THEN [ret |-> w.ret, heap |-> w.heap, invoked |-> <<m>>]
                      ELSE [ret |-> Zero64, heap |-> h, invoked |-> <<m>>] :
                     wr \in Result_to_wasm(res)}

\* the return of the export lifecycle for the WasmResult it built
LifecycleReturn(enc, h, log, wr) ==
    LET d == SerWasmResult(wr)
        data == unwrap_or_default(to_vec(enc, d, ResultLen(d)))
        w == wafer_write_result(h, data)
    IN  [ret |-> w.ret, heap |-> w.heap, log |-> log]

\* a lifecycle that answers an unknown event type with an error
lifecycle_strict(b, enc, h, log, doc) ==
    LET wasm_event == DeWasmLifecycleEvent(doc)
    IN  IF ~wasm_event.ok
        THEN {LifecycleReturn(enc, h, log, DecodeErrorResult(wasm_event.diag))}
        ELSE LET event == LifecycleEvent_from_wasm(wasm_event.val)
             IN  IF event = None
                 THEN {LifecycleReturn(enc, h, log, DecodeErrorResult("unknown event type"))}
                 ELSE LET r == BlockLifecycle(Default_default(b), Unwrap(event))
                          log2 == Append(log, Unwrap(event).event_type)
                      IN  IF r.ok
                          THEN {LifecycleReturn(enc, h, log2, ContinueResult)}
                          ELSE {LifecycleReturn(enc, h, log2,
                                    [action |-> "error", response |-> None,
                                     error |-> Some(we)]) : we \in ToWasmErrors(r.err)}

\* a lifecycle that delivers start and stop only after an init
lifecycle_ordered(b, enc, h, log, doc) ==
    LET wasm_event == DeWasmLifecycleEvent(doc)
    IN  IF ~wasm_event.ok
        THEN {LifecycleReturn(enc, h, log, DecodeErrorResult(wasm_event.diag))}
        ELSE LET event == LifecycleEvent_from_wasm(wasm_event.val)
             IN  IF event = None
                 THEN {LifecycleReturn(enc, h, log, ContinueResult)}
                 ELSE IF Unwrap(event).event_type # "Init"
                         /\ \A i \in 1..Len(log) : log[i] # "Init"
                 THEN {LifecycleReturn(enc, h, log,
                           [action |-> "error", response |-> None,
                            error |-> Some([code |-> "invalid_state",
                                            message |-> "not initialized",
                                            meta |-> <<>>])])}
                 ELSE LET r == BlockLifecycle(Default_default(b), Unwrap(event))
                          log2 == Append(log, Unwrap(event).event_type)
                      IN  IF r.ok
                          THEN {LifecycleReturn(enc, h, log2, ContinueResult)}
                          ELSE {LifecycleReturn(enc, h, log2,
                                    [action |-> "error", response |-> None,
                                     error |-> Some(we)]) : we \in ToWasmErrors(r.err)}

\* a lifecycle that leaves the metadata of the block's error behind
lifecycle_nometa(b, enc, h, log, doc) ==
    LET wasm_event == DeWasmLifecycleEvent(doc)
    IN  IF ~wasm_event.ok
        THEN {LifecycleReturn(enc, h, log, DecodeErrorResult(wasm_event.diag))}
        ELSE LET event == LifecycleEvent_from_wasm(wasm_event.val)
             IN  IF event = None
                 THEN {LifecycleReturn(enc, h, log, ContinueResult)}
                 ELSE LET r == BlockLifecycle(Default_default(b), Unwrap(event))
                          log2 == Append(log, Unwrap(event).event_type)
                      IN  IF r.ok
                          THEN {LifecycleReturn(enc, h, log2, ContinueResult)}
                          ELSE {LifecycleReturn(enc, h, log2,
                                    [action |-> "error", response |-> None,
                                     error |-> Some([code |-> r.err.code,
                                                     message |-> r.err.message,
                                                     meta |-> <<>>])])}

\* the export lifecycle: what it returns, the heap after the call and the
\* events Block::lifecycle has been given, log being those given before
lifecycle(b, enc, h, log, doc) ==
    LET wasm_event == DeWasmLifecycleEvent(doc)
    IN  IF ~wasm_event.ok
        THEN {LifecycleReturn(enc, h, log, DecodeErrorResult(wasm_event.diag))}
        ELSE LET event == LifecycleEvent_from_wasm(wasm_event.val)
             IN  IF event = None
                 THEN {LifecycleReturn(enc, h, log, ContinueResult)}
                 ELSE LET r == BlockLifecycle(Default_default(b), Unwrap(event))
                          log2 == Append(log, Unwrap(event).event_type)
                      IN  IF r.ok
                          THEN {LifecycleReturn(enc, h, log2, ContinueResult)}
                          ELSE {LifecycleReturn(enc, h, log2,
                                    [action |-> "error", response |-> None,
                                     error |-> Some(we)]) : we \in ToWasmErrors(r.err)}

(***************************************************************************)
(* The boundary call and the service clients: context.rs, services/.  An   *)
(* answer of the host is the packed i64 its import returns and the bytes   *)
(* of the region the word names.                                           *)
(***************************************************************************)
\* a send that reads the region even when the host returned 0
Context_send_nonullcheck(m, enc, ans) ==
    IF enc # "ok"
    THEN [result |-> Result_error(WaferError_new("encode_error", "encode failure")),
          reads |-> <<>>]
    ELSE [result |-> DecodeResultDoc(ans.doc), reads |-> <<unpack_ptr_len(ans.packed)>>]

\* Context::send (wasm32): the Result_ it returns and the regions it read
Context_send(m, enc, ans) ==
    IF enc # "ok"
    THEN [result |-> Result_error(WaferError_new("encode_error", "encode failure")),
          reads |-> <<>>]
    ELSE LET up == unpack_ptr_len(ans.packed)
         IN  IF up[1] = Zero32 /\ up[2] = Zero32
             THEN [result |-> Result_error(WaferError_new("host_error", "host returned null")),
                   reads |-> <<>>]
             ELSE [result |-> DecodeResultDoc(ans.doc), reads |-> <<up>>]

\* Context::capabilities_raw (wasm32): the bytes it returns and the regions
\* it read
Context_capabilities_raw(ans) ==
    LET up == unpack_ptr_len(ans.packed)
    IN  IF up[1] = Zero32 /\ up[2] = Zero32
        THEN [bytes |-> "[]", reads |-> <<>>]
        ELSE [bytes |-> ans.doc, reads |-> <<up>>]

\* String::from_utf8_lossy of bytes none of which starts a multi-byte
\* sequence: a byte above 127 becomes U+FFFD
from_utf8_lossy(bytes) ==
    [i \in 1..Len(bytes) |-> IF bytes[i] < 128 THEN bytes[i] ELSE 65533]

\* result.error.unwrap_or_else(|| WaferError::new("unknown", what))
ErrorOf(r, what) ==
    IF r.error # None THEN Unwrap(r.error) ELSE WaferError_new("unknown", what)

\* a response that is replaced by an empty one when it is absent
ResponseOrDefault(r) ==
    IF r.response # None THEN ROk(Unwrap(r.response)) ELSE ROk(Response_new(<<>>))

\* result.response.ok_or_else(|| WaferError::new("no_response", ..))
ResponseOf(r) ==
    IF r.response # None THEN ROk(Unwrap(r.response))
    ELSE RErr(WaferError_new("no_response", "host returned no response data"))

\* the payloads "{}" and {"status_code":1}
EmptyObject == <<123, 125>>
StatusObject ==
    <<123, 34, 115, 116, 97, 116, 117, 115, 95, 99, 111, 100, 101, 34, 58, 49, 125>>

\* serde_json::from_slice::<HashMap<String, Value>> of the sample payloads
ParseClaims(data) ==
    IF data = EmptyObject THEN ROk(EmptyMap)
    ELSE IF data = StatusObject THEN ROk("status_code" :> 1)
    ELSE RErr(WaferError_new("decode_error", "expected value"))

\* serde_json::from_slice::<network::Response> of the sample payloads:
\* status_code is required
ParseResponse(data) ==
    IF data = StatusObject
    THEN ROk([status_code |-> 1, headers |-> EmptyMap, body |-> <<>>])
    ELSE IF data = EmptyObject
    THEN RErr(WaferError_new("decode_error", "missing field status_code"))
    ELSE RErr(WaferError_new("decode_error", "expected value"))

\* CryptoClient::hash, from the result of the send
CryptoClient_hash(r) ==
    IF r.action = "Error" THEN RErr(ErrorOf(r, "crypto hash failed"))
    ELSE LET resp == ResponseOf(r)
         IN  IF ~resp.ok THEN resp ELSE ROk(from_utf8_lossy(resp.val.data))

\* a compare_hash that fails whenever the reply carries an error record
CryptoClient_compare_hash_anyerror(r) ==
    IF r.action = "Error" \/ r.error # None
    THEN RErr(ErrorOf(r, "crypto compare_hash failed"))
    ELSE ROk(<<>>)

\* CryptoClient::compare_hash
CryptoClient_compare_hash(r) ==
    IF r.action = "Error" THEN RErr(ErrorOf(r, "crypto compare_hash failed"))
    ELSE ROk(<<>>)

\* CryptoClient::sign
CryptoClient_sign(r) ==
    IF r.action = "Error" THEN RErr(ErrorOf(r, "crypto sign failed"))
    ELSE LET resp == ResponseOf(r)
         IN  IF ~resp.ok THEN resp ELSE ROk(from_utf8_lossy(resp.val.data))

\* CryptoClient::verify
CryptoClient_verify(r) ==
    IF r.action = "Error" THEN RErr(ErrorOf(r, "crypto verify failed"))
    ELSE LET resp == ResponseOf(r)
         IN  IF ~resp.ok THEN resp ELSE ParseClaims(resp.val.data)

\* ConfigClient::get: an Option<String>
ConfigClient_get(r) ==
    IF r.action = "Error" \/ r.response = None THEN None
    ELSE Some(from_utf8_lossy(Unwrap(r.response).data))

\* ConfigClient::get_default
ConfigClient_get_default(r, default_value) ==
    IF ConfigClient_get(r) = None THEN default_value ELSE Unwrap(ConfigClient_get(r))

\* ConfigClient::set
ConfigClient_set(r) ==
    IF r.action = "Error" THEN RErr(ErrorOf(r, "config set failed"))
    ELSE ROk(<<>>)

\* StorageClient::put
StorageClient_put(r) ==
    IF r.action = "Error" THEN RErr(ErrorOf(r, "storage put failed"))
    ELSE ROk(<<>>)

\* StorageClient::get
StorageClient_get(r, key) ==
    IF r.action = "Error" THEN RErr(ErrorOf(r, "storage get failed"))
    ELSE LET resp == ResponseOf(r)
         IN  IF ~resp.ok THEN resp
             ELSE ROk([info |-> [key |-> key,
                                 size |-> Len(resp.val.data),
                                 content_type |->
                                     IF "content_type" \in DOMAIN resp.val.meta
                                     THEN resp.val.meta["content_type"] ELSE ""],
                       data |-> resp.val.data])

\* StorageClient::delete
StorageClient_delete(r) ==
    IF r.action = "Error" THEN RErr(ErrorOf(r, "storage delete failed"))
    ELSE ROk(<<>>)

\* NetworkClient::do_request
NetworkClient_do_request(r) ==
    IF r.action = "Error" THEN RErr(ErrorOf(r, "network request failed"))
    ELSE LET resp == ResponseOf(r)
         IN  IF ~resp.ok THEN resp ELSE ParseResponse(resp.val.data)

\* LoggerClient::log: the result of the send is dropped
LoggerClient_log(r) == <<>>

\* the Message each operation sends; the arguments are sample values
RequestOf(o) ==
    CASE o = "send" -> Message_new("ping", <<104, 105>>)
      [] o = "hash" -> Message_new("svc.crypto.hash", <<104, 105>>)
      [] o = "compare_hash" ->
             Message_set_meta(Message_new("svc.crypto.compare_hash", <<104, 105>>),
                              "hash", "h")
      [] o = "sign" ->
             Message_set_meta(Message_new("svc.crypto.sign", EmptyObject), "expiry", "60")
      [] o = "verify" -> Message_new("svc.crypto.verify", <<104, 105>>)
      [] o \in {"config_get", "config_get_default"} ->
             Message_set_meta(Message_new("svc.config.get", <<>>), "key", "x")
      [] o = "config_set" ->
             Message_set_meta(Message_new("svc.config.set", <<104, 105>>), "key", "x")
      [] o = "storage_put" ->
             Message_set_meta(Message_set_meta(
                 Message_new("svc.storage.put", <<104, 105>>), "bucket", "b"), "key", "x")
      [] o = "storage_get" ->
             Message_set_meta(Message_set_meta(
                 Message_new("svc.storage.get", <<>>), "bucket", "b"), "key", "x")
      [] o = "storage_delete" ->
             Message_set_meta(Message_set_meta(
                 Message_new("svc.storage.delete", <<>>), "bucket", "b"), "key", "x")
      [] o = "do_request" -> Message_new("svc.network.do", EmptyObject)
      [] o = "log" ->
             Message_set_meta(Message_new("svc.logger.info", EmptyObject), "level", "info")

\* what each operation returns to the block for the result of its send
ReturnOf(o, r) ==
    CASE o = "send" -> r
      [] o = "hash" -> CryptoClient_hash(r)
      [] o = "compare_hash" -> CryptoClient_compare_hash(r)
      [] o = "sign" -> CryptoClient_sign(r)
      [] o = "verify" -> CryptoClient_verify(r)
      [] o = "config_get" -> ConfigClient_get(r)
      [] o = "config_get_default" -> ConfigClient_get_default(r, <<100>>)
      [] o = "config_set" -> ConfigClient_set(r)
      [] o = "storage_put" -> StorageClient_put(r)
      [] o = "storage_get" -> StorageClient_get(r, "x")
      [] o = "storage_delete" -> StorageClient_delete(r)
      [] o = "do_request" -> NetworkClient_do_request(r)
      [] o = "log" -> LoggerClient_log(r)

(***************************************************************************)
(* Message::query and Message::pagination_params: types.rs.  A usize of    *)
(* the guest (wasm32) has 32 bits, more than an integer of the checker     *)
(* holds, so it is kept as <<high half, low half>> of 16 bits each.        *)
(***************************************************************************)
META_REQ_QUERY_PREFIX == "req.query."

\* 2^16, the weight of the high half of a usize
HalfWord == 65536

\* Message::query: the value of the query parameter, "" when it is absent
Message_query(m, name) ==
    LET key == META_REQ_QUERY_PREFIX \o name
    IN  IF key \in DOMAIN m.meta THEN m.meta[key] ELSE <<>>

\* the digit loop of str::parse::<usize>: checked_mul(10) and
\* checked_add(digit), an error for a character that is no digit and for
\* a value above usize::MAX
RECURSIVE ParseDigits(_, _, _)
ParseDigits(s, i, acc) ==
    IF i > Len(s) THEN Some(acc)
    ELSE IF s[i] < 48 \/ s[i] > 57 THEN None
    ELSE LET low == acc[2] * 10 + (s[i] - 48)
             high == acc[1] * 10 + (low \div HalfWord)
         IN  IF high >= HalfWord THEN None
             ELSE ParseDigits(s, i + 1, <<high, low % HalfWord>>)

\* str::parse::<usize>().ok(): the empty string and a lone sign are
\* errors, a leading '+' is taken, a '-' is no digit of an unsigned type
ParseUsize(s) ==
    IF s = <<>> THEN None
    ELSE IF Len(s) = 1 /\ s[1] \in {43, 45} THEN None
    ELSE IF s[1] = 43 THEN ParseDigits(s, 2, <<0, 0>>)
    ELSE ParseDigits(s, 1, <<0, 0>>)

\* x - 1 for a usize x > 0
SubOne(x) == IF x[2] > 0 THEN <<x[1], x[2] - 1>> ELSE <<x[1] - 1, HalfWord - 1>>

\* the 32-bit product of two 16-bit halves, as <<high, low>>
MulHalves(x, y) ==
    LET p0 == (x % 256) * y
        p1 == (x \div 256) * y
        low == (p0 % HalfWord) + (p1 % 256) * 256
    IN  <<(p0 \div HalfWord) + (p1 \div 256) + (low \div HalfWord), low % HalfWord>>

\* a * b on usize: the low 32 bits of the product, and whether the product
\* needs more
MulUsize(a, b) ==
    LET ll == MulHalves(a[2], b[2])
        lh == MulHalves(a[2], b[1])
        hl == MulHalves(a[1], b[2])
        hh == MulHalves(a[1], b[1])
        mid == ll[1] + lh[2] + hl[2]
    IN  [val |-> <<mid % HalfWord, ll[2]>>,
         overflow |-> hh # <<0, 0>> \/ lh[1] # 0 \/ hl[1] # 0 \/ mid >= HalfWord]

\* a pagination_params that takes any parsed page_size above 0
Message_pagination_params_anysize(m, default, checks) ==
    LET pg == ParseUsize(Message_query(m, "page"))
        page == IF pg # None /\ Unwrap(pg) # <<0, 0>> THEN Unwrap(pg) ELSE <<0, 1>>
        ps == ParseUsize(Message_query(m, "page_size"))
        page_size == IF ps # None /\ Unwrap(ps) # <<0, 0>> THEN Unwrap(ps) ELSE default
        offset == MulUsize(SubOne(page), page_size)
    IN  IF offset.overflow /\ checks THEN [panicked |-> TRUE]
        ELSE [panicked |-> FALSE, page |-> page, page_size |-> page_size,
              offset |-> offset.val]

\* Message::pagination_params: (page, page_size, offset); the product
\* (page - 1) * page_size panics on overflow in a build with overflow
\* checks and wraps in one without
Message_pagination_params(m, default, checks) ==
    LET pg == ParseUsize(Message_query(m, "page"))
        page == IF pg # None /\ Unwrap(pg) # <<0, 0>> THEN Unwrap(pg) ELSE <<0, 1>>
        ps == ParseUsize(Message_query(m, "page_size"))
        page_size == IF ps # None /\ Unwrap(ps)[1] = 0
                          /\ Unwrap(ps)[2] > 0 /\ Unwrap(ps)[2] <= 100
                     THEN Unwrap(ps) ELSE default
        offset == MulUsize(SubOne(page), page_size)
    IN  IF offset.overflow /\ checks THEN [panicked |-> TRUE]
        ELSE [panicked |-> FALSE, page |-> page, page_size |-> page_size,
              offset |-> offset.val]

\* end of operators

(***************************************************************************)
(* The variables a scenario does not use keep these values                 *)
(***************************************************************************)
BridgeIdle ==
    /\ ptr = Zero32 /\ len = Zero32 /\ packed = Zero64
    /\ unpacked = <<Zero32, Zero32>>

B64Idle == input = <<>> /\ text = <<>> /\ decoded = DecodeOk(<<>>)

CodecIdle ==
    /\ msg = <<>> /\ wireMsg = <<>> /\ msgOut = <<>> /\ wireAgain = <<>>
    /\ result = <<>> /\ wire = <<>> /\ received = <<>>

HelperIdle == werr = <<>> /\ builder = <<>> /\ built = <<>> /\ calls = 0

DispatchIdle ==
    /\ block = <<>> /\ encoder = "ok" /\ heap = <<>> /\ reply = Zero64
    /\ last = <<>> /\ lifeLog = <<>> /\ entryCalls = 0 /\ outBytes = <<>>

ServiceIdle ==
    /\ answer = <<>> /\ op = "" /\ sent = <<>> /\ outcome = <<>> /\ reads = <<>>

PagingIdle == default_page_size = <<0, 0>> /\ overflow_checks = FALSE /\ paging = <<>>

NonBridgeIdle ==
    B64Idle /\ CodecIdle /\ HelperIdle /\ DispatchIdle /\ ServiceIdle /\ PagingIdle
NonB64Idle ==
    BridgeIdle /\ CodecIdle /\ HelperIdle /\ DispatchIdle /\ ServiceIdle /\ PagingIdle
NonCodecIdle ==
    BridgeIdle /\ B64Idle /\ HelperIdle /\ DispatchIdle /\ ServiceIdle /\ PagingIdle
NonHelperIdle ==
    BridgeIdle /\ B64Idle /\ DispatchIdle /\ ServiceIdle /\ PagingIdle
NonDispatchIdle ==
    BridgeIdle /\ B64Idle /\ CodecIdle /\ HelperIdle /\ ServiceIdle /\ PagingIdle
NonServiceIdle ==
    BridgeIdle /\ B64Idle /\ CodecIdle /\ HelperIdle /\ DispatchIdle /\ PagingIdle
NonPagingIdle ==
    BridgeIdle /\ B64Idle /\ HelperIdle /\ DispatchIdle /\ ServiceIdle

(***************************************************************************)
(* Scenario: the memory bridge                                             *)
(***************************************************************************)
InitBridge ==
    /\ pc = "args"
    /\ ptr \in Words32
    /\ len \in Words32
    /\ packed = Zero64
    /\ unpacked = <<Zero32, Zero32>>
    /\ NonBridgeIdle

Pack ==
    /\ pc = "args"
    /\ packed' = pack_ptr_len(ptr, len)
    /\ pc' = "packed"
    /\ UNCHANGED <<ptr, len, unpacked>>
    /\ UNCHANGED nonBridgeVars

Unpack ==
    /\ pc = "packed"
    /\ unpacked' = unpack_ptr_len(packed)
    /\ pc' = "unpacked"
    /\ UNCHANGED <<ptr, len, packed>>
    /\ UNCHANGED nonBridgeVars

NextBridge == Pack \/ Unpack

SpecBridge == InitBridge /\ [][NextBridge]_vars

\* C1: for every pair of 32-bit values (ptr, len), including 0 and values
\* with the top bit set, unpack_ptr_len(pack_ptr_len(ptr, len)) = (ptr, len)
C1_PackUnpackRoundTrip ==
    pc = "unpacked" => unpacked = <<ptr, len>>

\* a round trip has completed on a length and a pointer with the top bit set
C1_Witness ==
    /\ pc = "unpacked"
    /\ TopBit(len) = 1 /\ TopBit(ptr) = 1
    /\ unpacked = <<ptr, len>>

\* C2: the packed word holds the bit pattern of ptr in its high 32 bits and
\* the bit pattern of len in its low 32 bits (a len with the top bit set
\* leaves the high bits alone), and pack(0xDEADBEEF, 0x10) unpacks to
\* (0xDEADBEEF, 16)
C2_PackLayout ==
    /\ pc \in {"packed", "unpacked"} =>
          \A i \in 0..31 : packed[i] = len[i] /\ packed[i + 32] = ptr[i]
    /\ (pc = "unpacked" /\ ptr = DEADBEEF /\ len = Sixteen) =>
          unpacked = <<DEADBEEF, Sixteen>>

\* a word was packed from a length with the top bit set and a pointer
\* with a clear bit in it
C2_Witness ==
    /\ pc = "packed"
    /\ TopBit(len) = 1
    /\ \E i \in 0..31 : ptr[i] = 0 /\ packed[i + 32] = 0

(***************************************************************************)
(* Scenario: the base64 payload codec                                      *)
(***************************************************************************)
InitBase64 ==
    /\ \/ /\ pc = "bytes"
          /\ input \in SeqsUpTo(SampleBytes, MaxBytesLen)
          /\ text = <<>>
       \/ /\ pc = "wire"
          /\ input = <<>>
          /\ text \in SeqsUpTo(SampleChars, MaxTextLen)
    /\ decoded = DecodeOk(<<>>)
    /\ NonB64Idle

\* a payload field is written to the wire
Serialize ==
    /\ pc = "bytes"
    /\ text' = serialize(input)
    /\ pc' = "encoded"
    /\ UNCHANGED <<input, decoded>>
    /\ UNCHANGED nonB64Vars

\* the payload field just written is read back
DeserializeEncoded ==
    /\ pc = "encoded"
    /\ decoded' = deserialize(text)
    /\ pc' = "roundtrip"
    /\ UNCHANGED <<input, text>>
    /\ UNCHANGED nonB64Vars

\* a payload field received from the other side is read
DeserializeWire ==
    /\ pc = "wire"
    /\ decoded' = deserialize(text)
    /\ pc' = "read"
    /\ UNCHANGED <<input, text>>
    /\ UNCHANGED nonB64Vars

NextBase64 == Serialize \/ DeserializeEncoded \/ DeserializeWire

SpecBase64 == InitBase64 /\ [][NextBase64]_vars

\* C3: decoding the base64 encoding of any byte sequence of length 0..N
\* (also a length that is not a multiple of 3) returns the sequence, and the
\* encoding's length is a multiple of 4, padded with '='
C3_Base64RoundTrip ==
    /\ pc = "roundtrip" => decoded = DecodeOk(input)
    /\ pc \in {"encoded", "roundtrip"} =>
          /\ Len(text) = 4 * NumChunks(input)
          /\ \A i \in 1..Len(text) :
                IF i > Len(text) - PadCount(Len(input))
                THEN text[i] = PadChar
                ELSE InAlphabet(text[i])

\* a payload whose length is not a multiple of 3 made the round trip
C3_Witness ==
    /\ pc = "roundtrip"
    /\ Len(input) % 3 = 1
    /\ Len(input) > 3
    /\ text[Len(text)] = PadChar
    /\ decoded.bytes = input

\* C4: reading a payload field accepts the empty string as a zero-length
\* payload, and signals a decode error for any string with a character
\* outside the 64-symbol alphabet plus padding (it returns no payload then)
C4_DecodeRejectsInvalid ==
    pc = "read" =>
       /\ text = <<>> => decoded = DecodeOk(<<>>)
       /\ (\E i \in 1..Len(text) : ~InAlphabet(text[i]) /\ text[i] # PadChar)
             => (~decoded.ok /\ decoded.bytes = <<>>)

\* a string with valid symbols before and after an invalid one was rejected
C4_Witness ==
    /\ pc = "read"
    /\ Len(text) = 4
    /\ InAlphabet(text[1]) /\ InAlphabet(text[2])
    /\ text[3] = 45
    /\ InAlphabet(text[4])
    /\ ~decoded.ok

\* the empty string was read as the empty payload
C4_WitnessEmpty ==
    pc = "read" /\ text = <<>> /\ decoded = DecodeOk(<<>>)

\* the string is n alphabet symbols followed by '=' characters only
SymbolsThenPad(s, n) ==
    /\ n \in 0..Len(s)
    /\ \A i \in 1..Len(s) : IF i <= n THEN InAlphabet(s[i]) ELSE s[i] = PadChar

\* the number the first n symbols of s spell, six bits a symbol
RECURSIVE SixBitValue(_, _)
SixBitValue(s, n) == IF n = 0 THEN 0 ELSE 64 * SixBitValue(s, n - 1) + CharVal(s[n])

\* the whole bytes at the front of the 6n bits the first n symbols spell
LeadingBytes(s, n) ==
    [j \in 1..((6 * n) \div 8) |->
        (SixBitValue(s, n) \div Pow2(6 * n - 8 * j)) % 256]

\* C28: base64_decode returns success for every string of alphabet symbols
\* followed by any number of '=' characters, whatever its length: for n
\* symbols it gives the floor(6n/8) leading bytes and drops the bits left
\* over, so unpadded and over-padded strings and a single symbol (zero
\* bytes) are taken without error
C28_DecodeIsLenient ==
    pc = "read" =>
        \A n \in 0..Len(text) :
            SymbolsThenPad(text, n) =>
                /\ decoded.ok
                /\ Len(decoded.bytes) = (6 * n) \div 8
                /\ decoded.bytes = LeadingBytes(text, n)

\* the unpadded string "zz" was read as one byte, its last four bits dropped
C28_Witness ==
    /\ pc = "read"
    /\ text = <<122, 122>>
    /\ decoded = DecodeOk(<<207>>)

\* the single symbol "A" was read as the empty payload
C28_WitnessSingle ==
    /\ pc = "read"
    /\ text = <<65>>
    /\ decoded = DecodeOk(<<>>)

\* the over-padded string "/===" was read as the empty payload
C28_WitnessOverPadded ==
    /\ pc = "read"
    /\ text = <<47, 61, 61, 61>>
    /\ decoded = DecodeOk(<<>>)

(***************************************************************************)
(* Scenario: the wire codec.  The guest encodes a Message for the host     *)
(* (Context::send) and a Result_ for the host (handle), and decodes the    *)
(* Message the host passes to handle and the reply the host gives to send. *)
(***************************************************************************)
\* longest metadata sequence the host writes in a document
MaxMetaLen == 2

MetaKeys == {"resp.status", "x"}
MetaVals == {"200", "404"}
Maps == UNION {[D -> MetaVals] : D \in SUBSET MetaKeys}
\* the empty payload and "hi"
Payloads == {<<>>, <<104, 105>>}
\* "hello" and its encoding "aGVsbG8="
Hello == <<104, 101, 108, 108, 111>>
HelloText == <<97, 71, 86, 115, 98, 71, 56, 61>>
\* "", "aGk=", "a-k=" and "aGVsbG8="
PayloadTexts == {<<>>, <<97, 71, 107, 61>>, <<97, 45, 107, 61>>, HelloText}
WirePairs == {<<k, v>> : k \in MetaKeys, v \in MetaVals}
WireMetas == SeqsUpTo(WirePairs, MaxMetaLen)

Messages == {[kind |-> "ping", data |-> d, meta |-> m] : d \in Payloads, m \in Maps}
Responses == {[data |-> d, meta |-> m] : d \in Payloads, m \in Maps}
Errors ==
    {[code |-> "not_found", message |-> "gone", meta |-> m] :
        m \in {mm \in Maps : DOMAIN mm \subseteq {"resp.status"}}}
SomeMessage == Message_set_meta(Message_new("ping", <<104, 105>>), "x", "200")

\* what a block's handle can return: the constructors' results and any
\* Result_ literal (the fields are public)
BlockResults ==
    {[action |-> a, response |-> r, error |-> e, message |-> m] :
        a \in {"Continue", "Respond", "Drop", "Error"},
        r \in {None} \cup {Some(x) : x \in Responses},
        e \in {None} \cup {Some(x) : x \in Errors},
        m \in {None, Some(SomeMessage)}}

ConstructorResults ==
    {Message_cont(SomeMessage), Message_drop_msg(SomeMessage),
     Result_continue_with(SomeMessage)}
    \cup {Message_respond(SomeMessage, r) : r \in Responses}
    \cup {Message_err(SomeMessage, e) : e \in Errors}
    \cup {Result_error(e) : e \in Errors}

\* a member that may be left out
OptMember(f, vals) == {EmptyDoc} \cup {Member(f, v) : v \in vals}

\* the documents the host can pass to handle
HostMessageDocs ==
    {Garbage} \cup
    {k @@ d @@ m : k \in OptMember("kind", {"ping"}),
                   d \in OptMember("data", PayloadTexts),
                   m \in OptMember("meta", WireMetas)}

HostResponseDocs ==
    {d @@ m : d \in OptMember("data", PayloadTexts), m \in OptMember("meta", WireMetas)}

HostErrorDocs ==
    {Member("code", "not_found") @@ Member("message", "gone") @@ m :
        m \in OptMember("meta", {<<>>, << <<"resp.status", "404">> >>})}

ActionTokens == {"continue", "respond", "drop", "error", "Respond", ""}

\* the documents the host can reply to send with
HostResultDocs ==
    {Garbage} \cup
    {a @@ r @@ e : a \in OptMember("action", ActionTokens),
                   r \in OptMember("response", {JNull} \cup HostResponseDocs),
                   e \in OptMember("error", {JNull} \cup HostErrorDocs)}

InitCodec ==
    /\ \/ /\ pc = "msg"
          /\ msg \in Messages
          /\ wireMsg = <<>> /\ result = <<>> /\ wire = <<>>
       \/ /\ pc = "msgIn"
          /\ wireMsg \in HostMessageDocs
          /\ msg = <<>> /\ result = <<>> /\ wire = <<>>
       \/ /\ pc = "result"
          /\ result \in BlockResults \cup ConstructorResults
          /\ msg = <<>> /\ wireMsg = <<>> /\ wire = <<>>
       \/ /\ pc = "reply"
          /\ wire \in HostResultDocs
          /\ msg = <<>> /\ wireMsg = <<>> /\ result = <<>>
    /\ msgOut = <<>>
    /\ wireAgain = <<>>
    /\ received = <<>>
    /\ NonCodecIdle

\* Context::send, lines 82-88: the message is encoded for the host
EncodeMessage ==
    /\ pc = "msg"
    /\ wireMsg' \in EncodeMessageDocs(msg)
    /\ pc' = "msgWire"
    /\ UNCHANGED <<msg, msgOut, wireAgain, result, wire, received>>
    /\ UNCHANGED nonCodecVars

\* the message just encoded is decoded as handle decodes it
DecodeMessageBack ==
    /\ pc = "msgWire"
    /\ msgOut' = DecodeMessageDoc(wireMsg)
    /\ pc' = "msgBack"
    /\ UNCHANGED <<msg, wireMsg, wireAgain, result, wire, received>>
    /\ UNCHANGED nonCodecVars

\* the Message decoded from the encoding is encoded once more
ReencodeMessage ==
    /\ pc = "msgBack"
    /\ msgOut.ok
    /\ wireAgain' \in EncodeMessageDocs(msgOut.val)
    /\ pc' = "msgAgain"
    /\ UNCHANGED <<msg, wireMsg, msgOut, result, wire, received>>
    /\ UNCHANGED nonCodecVars

\* register! handle, lines 133-150: the host's message is decoded
DecodeMessageIn ==
    /\ pc = "msgIn"
    /\ msgOut' = DecodeMessageDoc(wireMsg)
    /\ pc' = "msgRead"
    /\ UNCHANGED <<msg, wireMsg, wireAgain, result, wire, received>>
    /\ UNCHANGED nonCodecVars

\* register! handle, lines 154-156: the block's result is encoded
EncodeResult ==
    /\ pc = "result"
    /\ wire' \in EncodeResultDocs(result)
    /\ pc' = "resultWire"
    /\ UNCHANGED <<msg, wireMsg, msgOut, wireAgain, result, received>>
    /\ UNCHANGED nonCodecVars

\* the result just encoded is decoded as send decodes it
DecodeResultBack ==
    /\ pc = "resultWire"
    /\ received' = DecodeResultDoc(wire)
    /\ pc' = "resultBack"
    /\ UNCHANGED <<msg, wireMsg, msgOut, wireAgain, result, wire>>
    /\ UNCHANGED nonCodecVars

\* Context::send, lines 103-106: the host's reply is decoded
DecodeReply ==
    /\ pc = "reply"
    /\ received' = DecodeResultDoc(wire)
    /\ pc' = "replyRead"
    /\ UNCHANGED <<msg, wireMsg, msgOut, wireAgain, result, wire>>
    /\ UNCHANGED nonCodecVars

NextCodec ==
    \/ EncodeMessage \/ DecodeMessageBack \/ ReencodeMessage \/ DecodeMessageIn
    \/ EncodeResult \/ DecodeResultBack \/ DecodeReply

SpecCodec == InitCodec /\ [][NextCodec]_vars

\* the mapping a metadata sequence stands for when the last pair of a key wins
KeysOf(pairs) == {pairs[i][1] : i \in DOMAIN pairs}
LastIndex(pairs, k) ==
    CHOOSE i \in DOMAIN pairs :
        pairs[i][1] = k /\ \A j \in DOMAIN pairs : pairs[j][1] = k => j <= i
LastWins(pairs) == [k \in KeysOf(pairs) |-> pairs[LastIndex(pairs, k)][2]]
DocMeta(doc) == IF Has(doc, "meta") THEN doc.meta ELSE <<>>

\* C5: decoding a wire metadata sequence gives the key-unique mapping in
\* which the last pair of a duplicated key wins, and encoding then decoding
\* a mapping gives the same mapping, for Message, Response and WaferError
C5_MetaFoldAndRoundTrip ==
    /\ (pc = "msgRead" /\ msgOut.ok) =>
          msgOut.val.meta = LastWins(DocMeta(wireMsg))
    /\ pc = "msgBack" => (msgOut.ok /\ msgOut.val.meta = msg.meta)
    /\ (pc = "replyRead" /\ DeWasmResult(wire).ok) =>
          /\ IsSome(received.response) =>
                Unwrap(received.response).meta = LastWins(DocMeta(wire.response))
          /\ IsSome(received.error) =>
                Unwrap(received.error).meta = LastWins(DocMeta(wire.error))
    /\ pc = "resultBack" =>
          /\ IsSome(result.response) =>
                /\ IsSome(received.response)
                /\ Unwrap(received.response).meta = Unwrap(result.response).meta
          /\ IsSome(result.error) =>
                /\ IsSome(received.error)
                /\ Unwrap(received.error).meta = Unwrap(result.error).meta

\* a message whose metadata lists the key x twice was decoded, and the
\* second value is the one held
C5_Witness ==
    /\ pc = "msgRead"
    /\ Has(wireMsg, "meta")
    /\ wireMsg.meta = << <<"x", "200">>, <<"x", "404">> >>
    /\ msgOut.ok
    /\ msgOut.val.meta = ("x" :> "404")

\* a message with two metadata entries made the round trip
C5_WitnessRoundTrip ==
    /\ pc = "msgBack"
    /\ DOMAIN msg.meta = MetaKeys
    /\ msgOut.val.meta = msg.meta

\* the outcome invariant of a Result_
WellFormed(r) ==
    CASE r.action = "Respond" -> IsSome(r.response) /\ r.error = None
      [] r.action = "Error" -> IsSome(r.error) /\ r.response = None
      [] OTHER -> r.response = None /\ r.error = None

\* C7: for each of the four actions, encoding a Result_ that keeps the
\* outcome invariant and decoding it gives the same action and a Result_
\* that keeps the invariant
C7_OutcomeInvariantPreserved ==
    (pc = "resultBack" /\ WellFormed(result)) =>
        (received.action = result.action /\ WellFormed(received))

\* a Drop outcome made the round trip
C7_Witness ==
    /\ pc = "resultBack"
    /\ result = Message_drop_msg(SomeMessage)
    /\ received.action = "Drop"
    /\ received.response = None /\ received.error = None

\* a Respond outcome made the round trip
C7_WitnessRespond ==
    /\ pc = "resultBack"
    /\ result \in {Message_respond(SomeMessage, r) : r \in Responses}
    /\ received.action = "Respond"
    /\ IsSome(received.response) /\ received.error = None

Present(doc, f) == Has(doc, f) /\ doc[f] # JNull

\* a wire Outcome that breaks the outcome invariant
WireViolates(doc) ==
    CASE doc.action = "respond" -> ~Present(doc, "response") \/ Present(doc, "error")
      [] doc.action = "error" -> ~Present(doc, "error") \/ Present(doc, "response")
      [] doc.action \in {"continue", "drop"} ->
            Present(doc, "response") \/ Present(doc, "error")
      [] OTHER -> FALSE

\* C8: a decoded wire Outcome that breaks the outcome invariant (respond
\* without a response record, error without an error record, ...) is an
\* Error outcome with a decode-time error code of its own
C8_InvalidOutcomeIsError ==
    (pc = "replyRead" /\ DeWasmResult(wire).ok /\ WireViolates(wire)) =>
        /\ received.action = "Error"
        /\ received.response = None
        /\ IsSome(received.error)
        /\ Present(wire, "error") => Unwrap(received.error).code # wire.error.code

\* C9: the encoder never writes a record with both response and error; of
\* two populated fields it keeps the one that matches the action
C9_EncoderNeverEmitsBoth ==
    pc \in {"resultWire", "resultBack"} =>
        /\ ~(Has(wire, "response") /\ Has(wire, "error"))
        /\ (IsSome(result.response) /\ IsSome(result.error)) =>
              /\ result.action = "Respond" => Has(wire, "response")
              /\ result.action = "Error" => Has(wire, "error")

\* C10: response and error are left out of the encoded Outcome (not
\* written as null) exactly when the field is None, and a response with an
\* empty payload is written and decodes to a Response with empty data
C10_OptionalFieldsOmitted ==
    /\ pc \in {"resultWire", "resultBack"} =>
          /\ Has(wire, "response") <=> IsSome(result.response)
          /\ Has(wire, "error") <=> IsSome(result.error)
          /\ Has(wire, "response") => wire.response # JNull
          /\ Has(wire, "error") => wire.error # JNull
    /\ (pc = "resultBack" /\ IsSome(result.response)
            /\ Unwrap(result.response).data = <<>>) =>
          /\ Has(wire, "response")
          /\ wire.response.data = <<>>
          /\ IsSome(received.response)
          /\ Unwrap(received.response).data = <<>>

\* a Respond outcome with an empty payload made the round trip, and the
\* record written had a response and no error member
C10_Witness ==
    /\ pc = "resultBack"
    /\ result = Message_respond(SomeMessage, Response_new(<<>>))
    /\ Has(wire, "response") /\ ~Has(wire, "error")
    /\ received.response = Some(Response_new(<<>>))

\* the action an exact lowercase token names
TokenAction(t) ==
    IF t = "respond" THEN "Respond"
    ELSE IF t = "drop" THEN "Drop"
    ELSE IF t = "error" THEN "Error"
    ELSE "Continue"

\* the same document with the token "continue"
WithContinue(doc) == [f \in DOMAIN doc |-> IF f = "action" THEN "continue" ELSE doc[f]]

\* C11: decoding maps the exact lowercase tokens continue, respond, drop,
\* error to their action, and any other token (a differently-cased or an
\* empty one too) to Continue, without a decode failure
C11_ActionTokenDecode ==
    (pc = "replyRead" /\ Has(wire, "action") /\ DeWasmResult(WithContinue(wire)).ok) =>
        /\ DeWasmResult(wire).ok
        /\ received.action = TokenAction(wire.action)
        /\ IsSome(received.response) <=> Present(wire, "response")
        /\ IsSome(received.error) <=> Present(wire, "error")

\* a reply with the token "Respond" and a response record was decoded to
\* Continue
C11_Witness ==
    /\ pc = "replyRead"
    /\ Has(wire, "action") /\ wire.action = "Respond"
    /\ Present(wire, "response")
    /\ received.action = "Continue"
    /\ IsSome(received.response)

\* a reply with the empty token was decoded to Continue
C11_WitnessEmpty ==
    /\ pc = "replyRead"
    /\ Has(wire, "action") /\ wire.action = ""
    /\ received.action = "Continue"

\* C21: a Message that is encoded, decoded and encoded again has a second
\* encoding identical to the first, whatever the Message
C21_ReencodeIsIdentical ==
    pc = "msgAgain" => wireAgain = wireMsg

\* the pairs a wire metadata sequence lists
PairsOf(pairs) == {pairs[i] : i \in DOMAIN pairs}

\* the two encodings of a Message have the same kind, the same data and the
\* same metadata pairs, and are identical when the Message has at most one
\* metadata entry, as the Message of the spec's scenario (kind "ping", empty
\* data, empty meta) has
C21_ScenarioReencode ==
    pc = "msgAgain" =>
        /\ wireAgain.kind = wireMsg.kind
        /\ wireAgain.data = wireMsg.data
        /\ Len(wireAgain.meta) = Len(wireMsg.meta)
        /\ PairsOf(wireAgain.meta) = PairsOf(wireMsg.meta)
        /\ Cardinality(DOMAIN msg.meta) <= 1 => wireAgain = wireMsg

\* the scenario's Message was encoded, decoded and encoded again
C21_ScenarioWitness ==
    /\ pc = "msgAgain"
    /\ msg = Message_new("ping", <<>>)
    /\ wireMsg = [kind |-> "ping", data |-> <<>>, meta |-> <<>>]
    /\ wireAgain = wireMsg

\* a wire Outcome with the token "respond", a response record that has a
\* data member, and no error record
RespondRecord(doc) ==
    /\ Has(doc, "action") /\ doc.action = "respond"
    /\ Present(doc, "response") /\ Has(doc.response, "data")
    /\ ~Present(doc, "error")

\* the payloads whose standard (padded) base64 encoding is the text t
StandardDecodings(t) == {b \in Payloads \cup {Hello} : base64_encode(b) = t}

\* C22: a wire Outcome with action "respond" and a response record decodes
\* to action Respond with no error and a Response whose payload is the
\* standard-base64 decoding of the data member and whose metadata maps each
\* listed key to its value; data "aGVsbG8=" with meta [["resp.status","200"]]
\* gives the payload "hello" and resp.status = "200"
C22_RespondRecordDecodes ==
    (pc = "replyRead" /\ RespondRecord(wire)
        /\ StandardDecodings(wire.response.data) # {}) =>
        /\ received.action = "Respond"
        /\ received.error = None
        /\ IsSome(received.response)
        /\ Unwrap(received.response).data \in StandardDecodings(wire.response.data)
        /\ Unwrap(received.response).meta = LastWins(DocMeta(wire.response))
        /\ \A i \in DOMAIN DocMeta(wire.response) :
              LET pair == DocMeta(wire.response)[i]
              IN  (\A j \in DOMAIN DocMeta(wire.response) :
                      DocMeta(wire.response)[j][1] = pair[1] => j = i)
                  => Unwrap(received.response).meta[pair[1]] = pair[2]
        /\ (wire.response.data = HelloText
                /\ DocMeta(wire.response) = << <<"resp.status", "200">> >>) =>
              /\ Unwrap(received.response).data = Hello
              /\ Unwrap(received.response).meta = ("resp.status" :> "200")

\* the Outcome of the spec's scenario was decoded
C22_Witness ==
    /\ pc = "replyRead"
    /\ wire = [action |-> "respond",
               response |-> [data |-> HelloText,
                             meta |-> << <<"resp.status", "200">> >>]]
    /\ received.action = "Respond"
    /\ received.error = None
    /\ Unwrap(received.response).data = Hello
    /\ Unwrap(received.response).meta["resp.status"] = "200"

(***************************************************************************)
(* Scenario: a block builds metadata in memory with Message::set_meta,     *)
(* WaferError::with_meta, the respond and error helpers and a              *)
(* ResponseBuilder.                                                        *)
(***************************************************************************)
\* most metadata-writing calls in one run
MaxCalls == 3

HeaderNames == {"X-A", "X-B"}
HeaderVals == {"1", "2"}
Cookies == {"s=1"}
Statuses == {200, 404}
ContentTypes == {"", "text/plain"}
\* the outcomes of serde_json::to_vec in ResponseBuilder::json: "{}" or an error
JsonOutcomes == {Ok(<<123, 125>>), Err("key must be a string")}

InitHelpers ==
    /\ pc = "helpers"
    /\ msg = Message_new("ping", <<>>)
    /\ werr = WaferError_new("internal", "boom")
    /\ builder = None
    /\ built = None
    /\ calls = 0
    /\ wireMsg = <<>> /\ msgOut = <<>> /\ wireAgain = <<>>
    /\ result = <<>> /\ wire = <<>> /\ received = <<>>
    /\ NonHelperIdle

HelperFrame ==
    UNCHANGED <<pc, wireMsg, msgOut, wireAgain, result, wire, received, nonHelperVars>>

\* msg.set_meta(key, value)
SetMeta ==
    /\ pc = "helpers" /\ calls < MaxCalls
    /\ \E k \in MetaKeys, v \in MetaVals : msg' = Message_set_meta(msg, k, v)
    /\ calls' = calls + 1
    /\ UNCHANGED <<werr, builder, built>>
    /\ HelperFrame

\* err.with_meta(key, value)
WithMeta ==
    /\ pc = "helpers" /\ calls < MaxCalls
    /\ \E k \in MetaKeys, v \in MetaVals : werr' = WaferError_with_meta(werr, k, v)
    /\ calls' = calls + 1
    /\ UNCHANGED <<msg, builder, built>>
    /\ HelperFrame

\* ResponseBuilder::new(msg.clone(), status) / new_response
NewBuilder ==
    /\ pc = "helpers" /\ builder = None /\ built = None
    /\ \E s \in Statuses : builder' = Some(ResponseBuilder_new(msg, s))
    /\ UNCHANGED <<msg, werr, built, calls>>
    /\ HelperFrame

\* builder.set_header(key, value)
SetHeader ==
    /\ pc = "helpers" /\ calls < MaxCalls /\ IsSome(builder)
    /\ \E k \in HeaderNames, v \in HeaderVals :
          builder' = Some(ResponseBuilder_set_header(Unwrap(builder), k, v))
    /\ calls' = calls + 1
    /\ UNCHANGED <<msg, werr, built>>
    /\ HelperFrame

\* builder.set_cookie(cookie)
SetCookie ==
    /\ pc = "helpers" /\ calls < MaxCalls /\ IsSome(builder)
    /\ \E c \in Cookies : builder' = Some(ResponseBuilder_set_cookie(Unwrap(builder), c))
    /\ calls' = calls + 1
    /\ UNCHANGED <<msg, werr, built>>
    /\ HelperFrame

\* builder.body(data, content_type): the builder is consumed
Body ==
    /\ pc = "helpers" /\ IsSome(builder)
    /\ \E d \in Payloads, ct \in ContentTypes :
          built' = Some(ResponseBuilder_body(Unwrap(builder), d, ct))
    /\ builder' = None
    /\ UNCHANGED <<msg, werr, calls>>
    /\ HelperFrame

\* builder.json(data): the builder is consumed
Json ==
    /\ pc = "helpers" /\ IsSome(builder)
    /\ \E enc \in JsonOutcomes : built' = Some(ResponseBuilder_json(Unwrap(builder), enc))
    /\ builder' = None
    /\ UNCHANGED <<msg, werr, calls>>
    /\ HelperFrame

\* respond(msg.clone(), status, data, content_type)
Respond ==
    /\ pc = "helpers" /\ builder = None /\ built = None
    /\ \E s \in Statuses, d \in Payloads, ct \in ContentTypes :
          built' = Some(respond(msg, s, d, ct))
    /\ UNCHANGED <<msg, werr, builder, calls>>
    /\ HelperFrame

\* error(msg.clone(), status, err_code, err_message)
Error ==
    /\ pc = "helpers" /\ builder = None /\ built = None
    /\ \E s \in Statuses : built' = Some(error(msg, s, "NotFound", "gone"))
    /\ UNCHANGED <<msg, werr, builder, calls>>
    /\ HelperFrame

NextHelpers ==
    \/ SetMeta \/ WithMeta \/ NewBuilder \/ SetHeader \/ SetCookie
    \/ Body \/ Json \/ Respond \/ Error

SpecHelpers == InitHelpers /\ [][NextHelpers]_vars

\* no key is held twice in a Vec<MetaEntry>
KeyUnique(meta) ==
    \A i, j \in DOMAIN meta : i # j => meta[i].key # meta[j].key

\* C6: in-memory metadata is always a key-unique mapping: after any
\* sequence of Message::set_meta, WaferError::with_meta, respond / error
\* helper and ResponseBuilder::set_header / set_cookie calls no key is
\* held twice
C6_MetaKeyUnique ==
    /\ IsSome(builder) => KeyUnique(Unwrap(builder).meta)
    /\ (IsSome(built) /\ IsSome(Unwrap(built).response)) =>
          KeyUnique(Unwrap(Unwrap(built).response).meta)
    /\ (IsSome(built) /\ IsSome(Unwrap(built).error)) =>
          KeyUnique(Unwrap(Unwrap(built).error).meta)

\* the keys set_cookie and set_header can write in a run
CookieKeys == {META_RESP_COOKIE_PREFIX \o ToString(k) : k \in 0..MaxCalls}
HeaderKeys == {META_RESP_HEADER_PREFIX \o h : h \in HeaderNames}

\* the positions of the cookie entries of a Vec<MetaEntry>
CookieAt(meta) == {i \in DOMAIN meta : meta[i].key \in CookieKeys}

\* C29: after any sequence of set_cookie and set_header calls on a
\* ResponseBuilder, the k-th set_cookie call (from 0) has added the key
\* resp.set_cookie.k, so the cookie keys are pairwise distinct and numbered
\* 0..n-1 in call order; cookie_count is the number of set_cookie calls,
\* set_header leaves it alone, and the resp.status entry of new() is still
\* the first entry
C29_CookieNumbering ==
    /\ [](IsSome(builder) =>
            LET b == Unwrap(builder)
                at == CookieAt(b.meta)
            IN  /\ b.meta[1] = MetaEntry(META_RESP_STATUS, ToString(b.status))
                /\ b.cookie_count = Cardinality(at)
                /\ \A i \in at :
                      b.meta[i].key = META_RESP_COOKIE_PREFIX
                                          \o ToString(Cardinality({j \in at : j < i}))
                /\ \A i, j \in at : i # j => b.meta[i].key # b.meta[j].key
                /\ \A i \in 2..Len(b.meta) : b.meta[i].key \in CookieKeys \cup HeaderKeys)
    /\ [][(IsSome(builder) /\ IsSome(builder') /\ builder' # builder) =>
            LET b == Unwrap(builder)
                c == Unwrap(builder')
                added == c.meta[Len(c.meta)]
            IN  /\ c.meta = Append(b.meta, added)
                /\ added.key \in HeaderKeys => c.cookie_count = b.cookie_count
                /\ added.key \in CookieKeys =>
                      /\ c.cookie_count = b.cookie_count + 1
                      /\ added.key = META_RESP_COOKIE_PREFIX \o ToString(b.cookie_count)]_vars

\* a builder was given a cookie, a header and a second cookie
C29_Witness ==
    /\ IsSome(builder)
    /\ Len(Unwrap(builder).meta) = 4
    /\ Unwrap(builder).meta[1].key = "resp.status"
    /\ Unwrap(builder).meta[2].key = "resp.set_cookie.0"
    /\ Unwrap(builder).meta[3].key \in HeaderKeys
    /\ Unwrap(builder).meta[4].key = "resp.set_cookie.1"
    /\ Unwrap(builder).cookie_count = 2

(***************************************************************************)
(* Scenario: the host calls the exports of a registered block: malloc,     *)
(* info, handle and lifecycle, in any order.                               *)
(***************************************************************************)
\* calls of exports in one run
MaxEntryCalls == 3

\* the block types registered: what handle answers, whether lifecycle is
\* the default one, and the modes info declares
Blocks ==
    {[handle |-> h, lifecycle |-> "default", modes |-> <<>>, initialized |-> FALSE] :
        h \in {"cont", "respond", "drop", "err"}}
    \cup {[handle |-> "cont", lifecycle |-> "custom",
           modes |-> <<"PerNode", "Singleton">>, initialized |-> FALSE],
          [handle |-> "ready", lifecycle |-> "flag", modes |-> <<>>,
           initialized |-> FALSE]}

\* the bytes the host passes to handle: no JSON, a record without kind, a
\* payload that is no base64, and well-formed records
HandleDocs ==
    {Garbage,
     Member("data", <<97, 71, 107, 61>>),
     Member("kind", "ping") @@ Member("data", <<97, 45, 107, 61>>),
     Member("kind", "ping"),
     Member("kind", "ping") @@ Member("data", <<97, 71, 107, 61>>)
         @@ Member("meta", << <<"x", "404">>, <<"resp.status", "200">> >>)}

\* the bytes the host passes to lifecycle
LifecycleDocs ==
    {Garbage, Member("data", <<>>)}
    \cup {Member("type", t) : t \in {"init", "start", "stop", "pause", "Init"}}

MallocSizes == {0, 16}

\* the value of a non-negative i32
RECURSIVE NatFrom(_, _)
NatFrom(x, i) == IF i > 30 THEN 0 ELSE x[i] + 2 * NatFrom(x, i + 1)
NatOf(x) ==
    LET v == x
    IN  NatFrom(v, 0)

\* what the host finds where the packed word w points in the heap h: the
\* pointer and the length it unpacks, whether a written region starts there
\* with this length, and the document in it
RegionOf(w, h) ==
    LET up == unpack_ptr_len(w)
        At(p, n) ==
            LET found == {i \in 1..Len(h) :
                             h[i].ptr = p /\ h[i].size = n /\ h[i].data # Uninit}
            IN  IF n > 0 /\ found # {}
                THEN [is_buffer |-> TRUE, ptr |-> p, len |-> n,
                      doc |-> h[CHOOSE i \in found : TRUE].data]
                ELSE [is_buffer |-> FALSE, ptr |-> p, len |-> n, doc |-> <<>>]
    IN  CHOOSE r \in {At(p, n) : p \in {NatOf(up[1])}, n \in {NatOf(up[2])}} : TRUE

\* what the last reply points at
Reply == RegionOf(reply, heap)

InitDispatch ==
    /\ pc = "dispatch"
    /\ block \in Blocks
    /\ encoder = "ok"
    /\ heap = <<>>
    /\ reply = Zero64
    /\ last = [entry |-> "none", input |-> <<>>, invoked |-> <<>>]
    /\ lifeLog = <<>>
    /\ entryCalls = 0
    /\ outBytes = <<>>
    /\ NonDispatchIdle

DispatchFrame == UNCHANGED <<pc, block, encoder, outBytes, nonDispatchVars>>

\* the host calls malloc
Malloc ==
    /\ pc = "dispatch" /\ entryCalls < MaxEntryCalls
    /\ \E size \in MallocSizes :
          /\ heap' = malloc(heap, size).heap
          /\ reply' = SignExtend64(BitsOf(malloc(heap, size).ptr, 32))
          /\ last' = [entry |-> "malloc", input |-> size, invoked |-> <<>>]
    /\ entryCalls' = entryCalls + 1
    /\ UNCHANGED lifeLog
    /\ DispatchFrame

\* the host calls info
Info ==
    /\ pc = "dispatch" /\ entryCalls < MaxEntryCalls
    /\ heap' = info(block, encoder, heap).heap
    /\ reply' = info(block, encoder, heap).ret
    /\ last' = [entry |-> "info", input |-> <<>>, invoked |-> <<>>]
    /\ entryCalls' = entryCalls + 1
    /\ UNCHANGED lifeLog
    /\ DispatchFrame

\* the instance a block kept alive from the first call on would be after
\* the lifecycle events of log
RECURSIVE InstanceAfterFrom(_, _, _)
InstanceAfterFrom(b, log, i) ==
    IF i > Len(log) THEN b
    ELSE InstanceAfterFrom(
             BlockAfterLifecycle(b, [event_type |-> log[i], data |-> <<>>]), log, i + 1)

InstanceAfter(b, log) == InstanceAfterFrom(Default_default(b), log, 1)

\* a handle that invokes the instance it is given instead of a new one
handle_shared(b, enc, h, doc) ==
    LET wasm_msg == DeWasmMessage(doc)
    IN  IF ~wasm_msg.ok
        THEN LET err_result == SerWasmResult(DecodeErrorResult(wasm_msg.diag))
                 w == wafer_write_result(h, [doc |-> err_result,
                                             len |-> ResultLen(err_result)])
             IN  {[ret |-> w.ret, heap |-> w.heap, invoked |-> <<>>]}
        ELSE LET m == Message_from_wasm(wasm_msg.val)
             IN  {LET wasm_result == SerWasmResult(wr)
                      w == wafer_write_result(h, [doc |-> wasm_result,
                                                  len |-> ResultLen(wasm_result)])
                  IN  [ret |-> w.ret, heap |-> w.heap, invoked |-> <<m>>] :
                     wr \in Result_to_wasm(BlockHandle(b, m))}

\* the host calls handle in a module that keeps one block instance for all
\* calls
Handle_shared ==
    /\ pc = "dispatch" /\ entryCalls < MaxEntryCalls
    /\ \E doc \in HandleDocs :
          \E o \in handle_shared(InstanceAfter(block, lifeLog), encoder, heap, doc) :
              /\ heap' = o.heap
              /\ reply' = o.ret
              /\ last' = [entry |-> "handle", input |-> doc, invoked |-> o.invoked]
    /\ entryCalls' = entryCalls + 1
    /\ UNCHANGED lifeLog
    /\ DispatchFrame

\* the host calls handle with the bytes of doc
Handle ==
    /\ pc = "dispatch" /\ entryCalls < MaxEntryCalls
    /\ \E doc \in HandleDocs : \E o \in handle(block, encoder, heap, doc) :
          /\ heap' = o.heap
          /\ reply' = o.ret
          /\ last' = [entry |-> "handle", input |-> doc, invoked |-> o.invoked]
    /\ entryCalls' = entryCalls + 1
    /\ UNCHANGED lifeLog
    /\ DispatchFrame

\* the host calls lifecycle with the bytes of doc
Lifecycle ==
    /\ pc = "dispatch" /\ entryCalls < MaxEntryCalls
    /\ \E doc \in LifecycleDocs : \E o \in lifecycle(block, encoder, heap, lifeLog, doc) :
          /\ heap' = o.heap
          /\ reply' = o.ret
          /\ lifeLog' = o.log
          /\ last' = [entry |-> "lifecycle", input |-> doc,
                      invoked |-> SubSeq(o.log, Len(lifeLog) + 1, Len(o.log))]
    /\ entryCalls' = entryCalls + 1
    /\ DispatchFrame

NextDispatch == Malloc \/ Info \/ Handle \/ Lifecycle

SpecDispatch == InitDispatch /\ [][NextDispatch]_vars

\* the bytes are no well-formed Message record
Malformed(doc) == ~DeWasmMessage(doc).ok

\* C12: for malformed Message bytes the handle entry point does not invoke
\* the block's handle and returns a packed reply that points at a validly
\* encoded Outcome with action error, code decode_error, the decode
\* diagnostic as message and no response; the reply is never empty
C12_MalformedMessageIsDecodeError ==
    (pc = "dispatch" /\ last.entry = "handle" /\ Malformed(last.input)) =>
        LET r == Reply
        IN  /\ last.invoked = <<>>
            /\ r.is_buffer
            /\ r.len = ResultLen(r.doc)
            /\ DeWasmResult(r.doc).ok
            /\ r.doc.action = "error"
            /\ ~Has(r.doc, "response")
            /\ Has(r.doc, "error")
            /\ r.doc.error.code = "decode_error"
            /\ r.doc.error.message = DeWasmMessage(last.input).diag

\* handle was given bytes that are no JSON and replied with an encoded
\* error outcome
C12_Witness ==
    /\ pc = "dispatch" /\ last.entry = "handle" /\ last.input = Garbage
    /\ Reply.is_buffer
    /\ Reply.doc.action = "error"
    /\ Reply.doc.error.code = "decode_error"

\* handle was given a record whose payload is no base64, after an earlier
\* call
C12_WitnessBase64 ==
    /\ pc = "dispatch" /\ last.entry = "handle"
    /\ Has(last.input, "kind") /\ Malformed(last.input)
    /\ entryCalls > 1
    /\ Reply.is_buffer
    /\ Reply.doc.error.message = "invalid base64 character"

\* the bytes are a well-formed lifecycle record whose type is none of
\* init, start, stop
UnknownEvent(doc) ==
    /\ DeWasmLifecycleEvent(doc).ok
    /\ doc.type \notin {"init", "start", "stop"}

\* C13: a well-formed lifecycle record whose type is not init, start or
\* stop is acknowledged as success (action continue, no response, no
\* error) whatever the block, without invoking the block's lifecycle
C13_UnknownLifecycleTypeIsSuccess ==
    (pc = "dispatch" /\ last.entry = "lifecycle" /\ UnknownEvent(last.input)) =>
        LET r == Reply
        IN  /\ last.invoked = <<>>
            /\ r.is_buffer
            /\ r.len = ResultLen(r.doc)
            /\ r.doc = Member("action", "continue")

\* a block that overrides lifecycle was sent an event of type "pause"
\* after other events and the reply is the success acknowledgement
C13_Witness ==
    /\ pc = "dispatch" /\ last.entry = "lifecycle"
    /\ Has(last.input, "type") /\ last.input.type = "pause"
    /\ block.lifecycle = "custom"
    /\ lifeLog # <<>>
    /\ Reply.is_buffer
    /\ Reply.doc.action = "continue"

\* the type "Init", which differs from "init" in case, was acknowledged
\* without a delivery
C13_WitnessCase ==
    /\ pc = "dispatch" /\ last.entry = "lifecycle"
    /\ Has(last.input, "type") /\ last.input.type = "Init"
    /\ last.invoked = <<>>
    /\ Reply.is_buffer

WireActions == {"continue", "respond", "drop", "error"}

\* C19: every call of handle with a well-formed Message invokes the
\* block's handle exactly once, with the decoded message, and returns one
\* reply, written once, whose action is one of continue, respond, drop,
\* error: the action of the outcome the block returned
C19_OneInvocationOneReply ==
    [][(last'.entry = "handle" /\ ~Malformed(last'.input)) =>
          \A r \in {Reply'} :
              /\ last'.invoked = <<Message_from_wasm(DeWasmMessage(last'.input).val)>>
              /\ entryCalls' = entryCalls + 1
              /\ Len(heap') = Len(heap) + 1
              /\ r.is_buffer
              /\ r.ptr = heap'[Len(heap')].ptr
              /\ r.doc.action \in WireActions
              /\ r.doc.action =
                     Action_as_str(BlockHandle(block, last'.invoked[1]).action)]_vars

\* handle was called with a well-formed record after other calls, the
\* block was invoked once and the reply is a respond outcome
C19_Witness ==
    /\ pc = "dispatch" /\ last.entry = "handle" /\ ~Malformed(last.input)
    /\ entryCalls = MaxEntryCalls
    /\ Len(last.invoked) = 1
    /\ Reply.is_buffer
    /\ Reply.doc.action = "respond"

\* the same for a block that answers Continue
C19_WitnessContinue ==
    /\ pc = "dispatch" /\ last.entry = "handle" /\ ~Malformed(last.input)
    /\ Len(last.invoked) = 1
    /\ Reply.is_buffer
    /\ Reply.doc.action = "continue"

\* the acknowledgements lifecycle can write for what the block's lifecycle
\* returns for an event of type t
Acks(b, t) ==
    LET r == BlockLifecycle(b, [event_type |-> Unwrap(LifecycleType_parse(t)), data |-> <<>>])
    IN  IF r.ok THEN {Member("action", "continue")}
        ELSE {Member("action", "error") @@ Member("error", SerWasmError(we)) :
                 we \in ToWasmErrors(r.err)}

\* the bytes are a well-formed lifecycle record of type init, start or stop
KnownEvent(doc) ==
    /\ DeWasmLifecycleEvent(doc).ok
    /\ doc.type \in {"init", "start", "stop"}

\* C20: the adapter does not validate lifecycle ordering: every init,
\* start or stop event, whatever events came before, is delivered to the
\* block's lifecycle and acknowledged with what the block returned for
\* this event alone; the default lifecycle acknowledges every event as
\* success
C20_LifecycleOrderFree ==
    [][(last'.entry = "lifecycle" /\ KnownEvent(last'.input)) =>
          \A r \in {Reply'} :
              /\ lifeLog' = Append(lifeLog, Unwrap(LifecycleType_parse(last'.input.type)))
              /\ r.is_buffer
              /\ r.doc \in Acks(block, last'.input.type)
              /\ block.lifecycle = "default" => r.doc = Member("action", "continue")]_vars

\* a default block was sent stop, stop, init, in this order, and each was
\* delivered and the last acknowledged as success
C20_Witness ==
    /\ pc = "dispatch" /\ last.entry = "lifecycle"
    /\ block.lifecycle = "default"
    /\ lifeLog = <<"Stop", "Stop", "Init">>
    /\ Reply.is_buffer
    /\ Reply.doc = Member("action", "continue")

\* an overriding block was sent start before any init and then stop, and
\* the stop was acknowledged with the block's error
C20_WitnessCustom ==
    /\ pc = "dispatch" /\ last.entry = "lifecycle"
    /\ block.lifecycle = "custom"
    /\ lifeLog = <<"Start", "Stop">>
    /\ Reply.is_buffer
    /\ Reply.doc.action = "error"
    /\ Reply.doc.error.code = "busy"

\* the regions a and b of the heap share no byte
Disjoint(a, b) == a.ptr + a.size <= b.ptr \/ b.ptr + b.size <= a.ptr

\* the calls that write a reply
ReplyEntries == {"info", "handle", "lifecycle"}

\* C23: the guest never frees or reuses a region malloc returned: in every
\* call the regions handed out before are kept as they are, no two regions
\* share a byte, and the reply of info, handle and lifecycle is written
\* into a region allocated in this call
C23_RegionsOnlyGrow ==
    [][\A r \in {Reply'} :
          /\ Len(heap') >= Len(heap)
          /\ \A i \in 1..Len(heap) : heap'[i] = heap[i]
          /\ \A i, j \in 1..Len(heap') : i # j => Disjoint(heap'[i], heap'[j])
          /\ (last'.entry = "malloc" /\ last'.input > 0) =>
                /\ Len(heap') = Len(heap) + 1
                /\ heap'[Len(heap')].size = last'.input
                /\ reply' = SignExtend64(BitsOf(heap'[Len(heap')].ptr, 32))
          /\ last'.entry \in ReplyEntries =>
                /\ Len(heap') = Len(heap) + 1
                /\ r.is_buffer
                /\ r.ptr = heap'[Len(heap')].ptr
                /\ r.len = heap'[Len(heap')].size
                /\ \A i \in 1..Len(heap) : heap[i].ptr # r.ptr]_vars

\* the host allocated a region, and the two replies written after it each
\* have a region of their own, the host's region still being there
C23_Witness ==
    /\ pc = "dispatch" /\ Len(heap) = 3
    /\ heap[1].data = Uninit
    /\ heap[2].data # Uninit /\ heap[3].data # Uninit
    /\ last.entry \in ReplyEntries
    /\ Reply.is_buffer /\ Reply.ptr = heap[3].ptr
    /\ heap[1].ptr < heap[2].ptr /\ heap[2].ptr < heap[3].ptr

\* what the block's lifecycle returns for the event of a well-formed record
\* of a known type
LifecycleResult(b, doc) ==
    BlockLifecycle(b, Unwrap(LifecycleEvent_from_wasm(DeWasmLifecycleEvent(doc).val)))

\* C24: for a recognised lifecycle event the acknowledgement is action
\* continue with no response and no error when the block's lifecycle
\* returns success, and otherwise action error with no response and an
\* error with the code, message and metadata of the WaferError the block
\* returned; a malformed lifecycle record is acknowledged with action error
\* and code decode_error
C24_LifecycleAcknowledgement ==
    (pc = "dispatch" /\ last.entry = "lifecycle") =>
        LET r == Reply
            ack == DecodeResultDoc(r.doc)
        IN  /\ KnownEvent(last.input) =>
                  /\ r.is_buffer
                  /\ LifecycleResult(block, last.input).ok =>
                        /\ r.doc.action = "continue"
                        /\ ~Has(r.doc, "response") /\ ~Has(r.doc, "error")
                        /\ ack.action = "Continue"
                        /\ ack.response = None /\ ack.error = None
                  /\ ~LifecycleResult(block, last.input).ok =>
                        /\ r.doc.action = "error"
                        /\ ~Has(r.doc, "response")
                        /\ Has(r.doc, "error")
                        /\ ack.action = "Error"
                        /\ ack.response = None
                        /\ ack.error = Some(LifecycleResult(block, last.input).err)
            /\ ~DeWasmLifecycleEvent(last.input).ok =>
                  /\ r.is_buffer
                  /\ r.doc.action = "error"
                  /\ ~Has(r.doc, "response")
                  /\ Has(r.doc, "error")
                  /\ r.doc.error.code = "decode_error"
                  /\ r.doc.error.message = DeWasmLifecycleEvent(last.input).diag

\* an overriding block refused a stop event and the acknowledgement carries
\* its error, metadata included
C24_Witness ==
    /\ pc = "dispatch" /\ last.entry = "lifecycle"
    /\ KnownEvent(last.input) /\ last.input.type = "stop"
    /\ ~LifecycleResult(block, last.input).ok
    /\ Reply.is_buffer
    /\ Reply.doc.action = "error"
    /\ Reply.doc.error =
           [code |-> "busy", message |-> "cannot stop",
            meta |-> << <<"retry", "soon">> >>]

\* a record without a type was acknowledged with decode_error
C24_WitnessMalformed ==
    /\ pc = "dispatch" /\ last.entry = "lifecycle"
    /\ last.input = Member("data", <<>>)
    /\ Reply.is_buffer
    /\ Reply.doc.error.code = "decode_error"

\* an init event was acknowledged as success
C24_WitnessSuccess ==
    /\ pc = "dispatch" /\ last.entry = "lifecycle"
    /\ KnownEvent(last.input) /\ last.input.type = "init"
    /\ Reply.is_buffer
    /\ Reply.doc = Member("action", "continue")

\* C27: info, handle and lifecycle each construct a new block instance with
\* Default and discard it on return: what a call answers is what a new
\* instance answers, whatever earlier calls did to theirs; a block that
\* notes an init in its instance still finds itself not initialized in the
\* handle call that follows
C27_FreshInstancePerCall ==
    (pc = "dispatch" /\ last.entry \in ReplyEntries) =>
        LET r == Reply
            fresh == Default_default(block)
        IN  /\ last.entry = "info" =>
                  r.doc = BlockInfo_to_wasm(BlockInfoOf(fresh))
            /\ (last.entry = "handle" /\ ~Malformed(last.input)) =>
                  /\ r.doc \in EncodeResultDocs(BlockHandle(fresh, last.invoked[1]))
                  /\ block.handle = "ready" =>
                        /\ r.doc.action = "error"
                        /\ r.doc.error.code = "not_initialized"
            /\ (last.entry = "lifecycle" /\ KnownEvent(last.input)) =>
                  r.doc \in Acks(fresh, last.input.type)

\* a block that notes an init in its instance was sent init and then a
\* message: the instance of the init call ended initialized, and the handle
\* call answered as a new instance does
C27_Witness ==
    /\ pc = "dispatch" /\ last.entry = "handle" /\ ~Malformed(last.input)
    /\ block.handle = "ready"
    /\ lifeLog # <<>> /\ lifeLog[1] = "Init"
    /\ InstanceAfter(block, lifeLog).initialized
    /\ Reply.is_buffer
    /\ Reply.doc.action = "error"
    /\ Reply.doc.error.code = "not_initialized"

(***************************************************************************)
(* Scenario: one run of __wafer_write_result, statement by statement: the  *)
(* region is allocated, the bytes are copied, the packed word is returned. *)
(***************************************************************************)
\* the heaps a reply can be written after: up to two earlier allocations
PriorSizes == {16, 21}
PriorHeaps ==
    {<<>>}
    \cup {malloc(<<>>, s).heap : s \in PriorSizes}
    \cup {malloc(malloc(<<>>, s).heap, t).heap : s, t \in PriorSizes}

\* the encoded bytes an entry point writes: the outcomes of the
\* constructors, and the empty Vec of unwrap_or_default
WriteData ==
    {[doc |-> d, len |-> ResultLen(d)] :
        d \in UNION {EncodeResultDocs(r) : r \in ConstructorResults}}
    \cup {[doc |-> <<>>, len |-> 0]}

InitWrite ==
    /\ pc = "encoded"
    /\ heap \in PriorHeaps
    /\ outBytes \in WriteData
    /\ reply = Zero64
    /\ block = <<>> /\ encoder = "ok" /\ last = <<>> /\ lifeLog = <<>>
    /\ entryCalls = 0
    /\ NonDispatchIdle

WriteFrame ==
    UNCHANGED <<block, encoder, last, lifeLog, entryCalls, outBytes,
                len, packed, unpacked, b64Vars, codecVars, helperVars, serviceVars,
                pagingVars>>

\* let ptr = malloc(data.len() as i32)
WriteAlloc ==
    /\ pc = "encoded"
    /\ heap' = malloc(heap, outBytes.len).heap
    /\ ptr' = BitsOf(malloc(heap, outBytes.len).ptr, 32)
    /\ pc' = "allocated"
    /\ UNCHANGED reply
    /\ WriteFrame

\* a copy that never happens
WriteCopy_skipped ==
    /\ pc = "allocated"
    /\ pc' = "copied"
    /\ UNCHANGED <<heap, ptr, reply>>
    /\ WriteFrame

\* core::ptr::copy_nonoverlapping(data.as_ptr(), ptr as *mut u8, data.len())
WriteCopy ==
    /\ pc = "allocated"
    /\ heap' = IF outBytes.len = 0 THEN heap
               ELSE [i \in 1..Len(heap) |->
                        IF heap[i].ptr = NatOf(ptr)
                        THEN [heap[i] EXCEPT !.data = outBytes.doc]
                        ELSE heap[i]]
    /\ pc' = "copied"
    /\ UNCHANGED <<ptr, reply>>
    /\ WriteFrame

\* pack_ptr_len(ptr, data.len() as i32)
WriteReturn ==
    /\ pc = "copied"
    /\ reply' = pack_ptr_len(ptr, BitsOf(outBytes.len, 32))
    /\ pc' = "returned"
    /\ UNCHANGED <<heap, ptr>>
    /\ WriteFrame

NextWrite == WriteAlloc \/ WriteCopy \/ WriteReturn

SpecWrite == InitWrite /\ [][NextWrite]_vars

\* the region at the top of the heap is the one allocated for the reply
TopIsReplyRegion ==
    /\ heap # <<>>
    /\ heap[Len(heap)].ptr = NatOf(ptr)
    /\ heap[Len(heap)].size = outBytes.len

\* C25: a reply is returned as pack(ptr, len) where len is the number of
\* encoded bytes and ptr the region allocated for exactly that many bytes;
\* the region is allocated first, the bytes are copied into it next, and
\* the packed word is returned last
C25_AllocateCopyReturn ==
    /\ [](pc = "returned" =>
            /\ reply = pack_ptr_len(ptr, BitsOf(outBytes.len, 32))
            /\ Reply.len = outBytes.len
            /\ Reply.ptr = NatOf(ptr)
            /\ outBytes.len > 0 =>
                  /\ TopIsReplyRegion
                  /\ Reply.is_buffer
                  /\ Reply.doc = outBytes.doc
            /\ outBytes.len = 0 => NatOf(ptr) = Dangling
            /\ [ret |-> reply, heap |-> heap] \in
                   {wafer_write_result(h, outBytes) : h \in PriorHeaps})
    /\ [](pc \in {"encoded", "allocated", "copied"} => reply = Zero64)
    /\ [](pc \in {"allocated", "copied"} /\ outBytes.len > 0 => TopIsReplyRegion)
    /\ [](pc = "allocated" /\ outBytes.len > 0 => heap[Len(heap)].data = Uninit)
    /\ [](pc = "copied" /\ outBytes.len > 0 => heap[Len(heap)].data = outBytes.doc)
    /\ [][/\ Len(heap') # Len(heap) => (pc = "encoded" /\ pc' = "allocated")
          /\ (Len(heap') = Len(heap) /\ heap' # heap) =>
                (pc = "allocated" /\ pc' = "copied")
          /\ reply' # reply => (pc = "copied" /\ pc' = "returned")]_vars

\* a continue outcome of 21 bytes was written after two earlier allocations
C25_Witness ==
    /\ pc = "returned"
    /\ Len(heap) = 3
    /\ outBytes.len = 21
    /\ Reply.is_buffer
    /\ Reply.len = 21
    /\ Reply.ptr = heap[3].ptr
    /\ Reply.doc = Member("action", "continue")

\* the empty Vec was written: no region, and the length in the word is 0
C25_WitnessEmpty ==
    /\ pc = "returned"
    /\ outBytes.len = 0
    /\ Reply.len = 0 /\ ~Reply.is_buffer

(***************************************************************************)
(* Scenario: the same calls, in a module where serde_json::to_vec may      *)
(* return Err in the entry points                                          *)
(***************************************************************************)
InitEncodeFail ==
    /\ pc = "dispatch"
    /\ block \in Blocks
    /\ encoder \in {"ok", "fail"}
    /\ heap = <<>>
    /\ reply = Zero64
    /\ last = [entry |-> "none", input |-> <<>>, invoked |-> <<>>]
    /\ lifeLog = <<>>
    /\ entryCalls = 0
    /\ outBytes = <<>>
    /\ NonDispatchIdle

SpecEncodeFail == InitEncodeFail /\ [][NextDispatch]_vars

\* the last call had an outcome or a block info to serialize
HadOutcome ==
    \/ last.entry = "info"
    \/ last.entry = "handle" /\ ~Malformed(last.input)

HostBuf == 2048
HostLen == 64

ServiceResponseDocs ==
    {Member("data", <<97, 71, 107, 61>>),
     Member("data", <<101, 51, 48, 61>>)
         @@ Member("meta", << <<"content_type", "text/plain">> >>),
     Member("data", <<101, 121, 74, 122, 100, 71, 70, 48, 100, 88, 78, 102, 89, 50,
                      57, 107, 90, 83, 73, 54, 77, 88, 48, 61>>)}

ServiceErrorDocs ==
    {Member("code", "permission_denied") @@ Member("message", "no access"),
     Member("code", "not_found") @@ Member("message", "gone")
         @@ Member("meta", << <<"resp.status", "404">> >>)}

\* the documents the host can answer a send with
ServiceReplyDocs ==
    {Garbage} \cup
    {Member("action", a) @@ r @@ e :
        a \in {"continue", "respond", "drop", "error", ""},
        r \in OptMember("response", {JNull} \cup ServiceResponseDocs),
        e \in OptMember("error", ServiceErrorDocs)}

\* the answers of the host: the null word, a region of length zero, a
\* region at address zero, and a region holding a document
Answers ==
    {[packed |-> Zero64, doc |-> Garbage],
     [packed |-> pack_ptr_len(BitsOf(HostBuf, 32), Zero32), doc |-> Garbage],
     [packed |-> pack_ptr_len(Zero32, BitsOf(HostLen, 32)), doc |-> Garbage]}
    \cup {[packed |-> pack_ptr_len(BitsOf(HostBuf, 32), BitsOf(HostLen, 32)), doc |-> d] :
             d \in ServiceReplyDocs}

InitServices ==
    /\ pc = "block"
    /\ answer \in Answers
    /\ op = "" /\ sent = <<>> /\ outcome = <<>> /\ reads = <<>>
    /\ NonServiceIdle

\* the operation o sends its message and returns
ServiceCall(o) ==
    /\ pc = "block"
    /\ LET s == Context_send(RequestOf(o), encoder, answer)
       IN  /\ sent' = Some(s.result)
           /\ reads' = s.reads
           /\ outcome' = ReturnOf(o, s.result)
    /\ op' = o
    /\ pc' = "returned"
    /\ UNCHANGED <<answer, nonServiceVars>>

Send == ServiceCall("send")
Hash == ServiceCall("hash")
CompareHash == ServiceCall("compare_hash")
Sign == ServiceCall("sign")
Verify == ServiceCall("verify")
ConfigGet == ServiceCall("config_get")
ConfigGetDefault == ServiceCall("config_get_default")
ConfigSet == ServiceCall("config_set")
StoragePut == ServiceCall("storage_put")
StorageGet == ServiceCall("storage_get")
StorageDelete == ServiceCall("storage_delete")
DoRequest == ServiceCall("do_request")
Log == ServiceCall("log")

\* Context::capabilities_raw
CapabilitiesRaw ==
    /\ pc = "block"
    /\ outcome' = Context_capabilities_raw(answer).bytes
    /\ reads' = Context_capabilities_raw(answer).reads
    /\ op' = "capabilities_raw"
    /\ pc' = "returned"
    /\ UNCHANGED <<answer, sent, nonServiceVars>>

NextServices ==
    \/ Send \/ CapabilitiesRaw
    \/ Hash \/ CompareHash \/ Sign \/ Verify
    \/ ConfigGet \/ ConfigGetDefault \/ ConfigSet
    \/ StoragePut \/ StorageGet \/ StorageDelete
    \/ DoRequest \/ Log

SpecServices == InitServices /\ [][NextServices]_vars

\* the host returned the null word
NullAnswer == answer.packed = Zero64

\* C15: a packed (0, 0) from a host call means no data and no memory is
\* read: Context::send returns an Error outcome with code host_error and
\* capabilities_raw returns the empty list
C15_NullAnswerIsNoData ==
    (pc = "returned" /\ NullAnswer) =>
        /\ reads = <<>>
        /\ op = "send" =>
              /\ outcome.action = "Error"
              /\ outcome.error # None
              /\ Unwrap(outcome.error).code = "host_error"
              /\ outcome.response = None
        /\ op = "capabilities_raw" => outcome = "[]"

\* send returned the host_error outcome for a null answer
C15_Witness ==
    /\ pc = "returned" /\ NullAnswer /\ op = "send"
    /\ reads = <<>>
    /\ Unwrap(outcome.error).code = "host_error"

\* capabilities_raw returned the empty list for a null answer
C15_WitnessCapabilities ==
    /\ pc = "returned" /\ NullAnswer /\ op = "capabilities_raw"
    /\ reads = <<>>
    /\ outcome = "[]"

\* the operations that return a Result<_, WaferError>
ResultOps ==
    {"hash", "compare_hash", "sign", "verify", "config_set",
     "storage_put", "storage_get", "storage_delete", "do_request"}

\* the reply the host wrote is a well-formed outcome with action error and
\* an error record
StructuredErrorReply ==
    /\ reads # <<>>
    /\ DeWasmResult(answer.doc).ok
    /\ answer.doc.action = "error"
    /\ Present(answer.doc, "error")

\* the WaferError the caller of the operation holds after the call
ReceivedError ==
    IF op = "send" THEN outcome.error
    ELSE IF op \in ResultOps THEN (IF outcome.ok THEN None ELSE Some(outcome.err))
    ELSE None

\* C16: whenever the reply of a boundary call carries a structured error,
\* the caller of Context::send and of every service-client operation
\* receives a WaferError with the code and the message of the reply
C16_StructuredErrorSurfaced ==
    (pc = "returned" /\ op # "capabilities_raw" /\ StructuredErrorReply) =>
        /\ ReceivedError # None
        /\ Unwrap(ReceivedError).code = answer.doc.error.code
        /\ Unwrap(ReceivedError).message = answer.doc.error.message

\* the operations that expect a reply payload
PayloadOps == {"hash", "sign", "verify", "do_request", "storage_get"}

\* the reply the host wrote is a well-formed outcome whose action is not
\* error and that has no response
NoResponseReply ==
    /\ reads # <<>>
    /\ DeWasmResult(answer.doc).ok
    /\ answer.doc.action # "error"
    /\ ~Present(answer.doc, "response")

\* C17: for every operation that expects a reply payload (crypto hash,
\* sign, verify; network do_request; storage get), a host reply whose
\* action is not error and that carries no response yields a WaferError
\* with code no_response
C17_MissingPayloadIsNoResponse ==
    (pc = "returned" /\ op \in PayloadOps /\ NoResponseReply) =>
        /\ ~outcome.ok
        /\ outcome.err.code = "no_response"

\* storage get was answered with {"action":"respond","response":null} and
\* returned no_response
C17_Witness ==
    /\ pc = "returned" /\ op = "storage_get" /\ NoResponseReply
    /\ answer.doc.action = "respond"
    /\ Has(answer.doc, "response")
    /\ ~outcome.ok /\ outcome.err.code = "no_response"

\* do_request was answered with {"action":"continue"} and returned
\* no_response
C17_WitnessContinue ==
    /\ pc = "returned" /\ op = "do_request" /\ NoResponseReply
    /\ answer.doc = Member("action", "continue")
    /\ ~outcome.ok /\ outcome.err.code = "no_response"

\* C18: every Continue outcome carries the (possibly mutated) Message:
\* also the one Context::send returns for a reply of the host
C18_ContinueCarriesMessage ==
    (pc = "returned" /\ op = "send" /\ outcome.action = "Continue") =>
        IsSome(outcome.message)

\* the operations that expect no reply payload
NoPayloadOps == {"compare_hash", "storage_put", "storage_delete", "config_set"}

\* the reply the host wrote was read and is a well-formed outcome
WellFormedReply == reads # <<>> /\ DeWasmResult(answer.doc).ok

\* C26: crypto compare_hash, storage put and delete and config set return
\* success for every host outcome whose decoded action is not Error (Drop,
\* Continue without a response, an unrecognised action token with an error
\* record, which decodes to Continue) and an error only when the decoded
\* action is Error
C26_NoPayloadOpsSucceedUnlessError ==
    (pc = "returned" /\ op \in NoPayloadOps) =>
        /\ outcome.ok <=> Unwrap(sent).action # "Error"
        /\ WellFormedReply =>
              /\ outcome.ok <=> answer.doc.action # "error"
              /\ answer.doc.action = "drop" =>
                    (Unwrap(sent).action = "Drop" /\ outcome = ROk(<<>>))
              /\ answer.doc.action \notin WireActions =>
                    (Unwrap(sent).action = "Continue" /\ outcome = ROk(<<>>))
        /\ ~WellFormedReply => ~outcome.ok

\* compare_hash was answered with an unrecognised action token and an error
\* record, and returned success
C26_Witness ==
    /\ pc = "returned" /\ op = "compare_hash" /\ WellFormedReply
    /\ answer.doc.action = ""
    /\ Present(answer.doc, "error")
    /\ Unwrap(sent).action = "Continue"
    /\ IsSome(Unwrap(sent).error)
    /\ outcome = ROk(<<>>)

\* storage put was answered with a drop and returned success
C26_WitnessDrop ==
    /\ pc = "returned" /\ op = "storage_put" /\ WellFormedReply
    /\ answer.doc = Member("action", "drop")
    /\ outcome = ROk(<<>>)

\* config set was answered with an error and returned it
C26_WitnessError ==
    /\ pc = "returned" /\ op = "config_set" /\ WellFormedReply
    /\ answer.doc.action = "error"
    /\ ~outcome.ok

(***************************************************************************)
(* Scenario: a block asks a Message for its pagination parameters.         *)
(***************************************************************************)
\* query strings and the usize each one parses to, None when it is no
\* usize: "", "0", "1", "2", "+3", "007", "-1", "2x", " 2", "100", "101",
\* "65537", "4294967295", "4294967296"
QuerySamples ==
    {[text |-> <<>>, value |-> None],
     [text |-> <<48>>, value |-> Some(<<0, 0>>)],
     [text |-> <<49>>, value |-> Some(<<0, 1>>)],
     [text |-> <<50>>, value |-> Some(<<0, 2>>)],
     [text |-> <<43, 51>>, value |-> Some(<<0, 3>>)],
     [text |-> <<48, 48, 55>>, value |-> Some(<<0, 7>>)],
     [text |-> <<45, 49>>, value |-> None],
     [text |-> <<50, 120>>, value |-> None],
     [text |-> <<32, 50>>, value |-> None],
     [text |-> <<49, 48, 48>>, value |-> Some(<<0, 100>>)],
     [text |-> <<49, 48, 49>>, value |-> Some(<<0, 101>>)],
     [text |-> <<54, 53, 53, 51, 55>>, value |-> Some(<<1, 1>>)],
     [text |-> <<52, 50, 57, 52, 57, 54, 55, 50, 57, 53>>,
      value |-> Some(<<65535, 65535>>)],
     [text |-> <<52, 50, 57, 52, 57, 54, 55, 50, 57, 54>>, value |-> None]}

QueryTexts == {q.text : q \in QuerySamples}

\* the page sizes a caller passes as default: 0, 20, 500, 65536, usize::MAX
DefaultPageSizes == {<<0, 0>>, <<0, 20>>, <<0, 500>>, <<1, 0>>, <<65535, 65535>>}

\* the metadata of a request: each query parameter absent or one of the texts
QueryMetas ==
    {p @@ s : p \in OptMember(META_REQ_QUERY_PREFIX \o "page", QueryTexts),
              s \in OptMember(META_REQ_QUERY_PREFIX \o "page_size", QueryTexts)}

InitPaging ==
    /\ pc = "request"
    /\ msg \in {[kind |-> "list", data |-> <<>>, meta |-> m] : m \in QueryMetas}
    /\ default_page_size \in DefaultPageSizes
    /\ overflow_checks \in BOOLEAN
    /\ paging = <<>>
    /\ wireMsg = <<>> /\ msgOut = <<>> /\ wireAgain = <<>>
    /\ result = <<>> /\ wire = <<>> /\ received = <<>>
    /\ NonPagingIdle

\* msg.pagination_params(default_page_size)
PaginationParams ==
    /\ pc = "request"
    /\ paging' = Message_pagination_params(msg, default_page_size, overflow_checks)
    /\ pc' = "paged"
    /\ UNCHANGED <<msg, wireMsg, msgOut, wireAgain, result, wire, received>>
    /\ UNCHANGED <<default_page_size, overflow_checks, nonPagingVars>>

NextPaging == PaginationParams

SpecPaging == InitPaging /\ [][NextPaging]_vars

\* the usize the query parameter denotes, None when it is absent or no usize
Denoted(m, name) ==
    LET key == META_REQ_QUERY_PREFIX \o name
    IN  IF key \notin DOMAIN m.meta THEN None
        ELSE (CHOOSE q \in QuerySamples : q.text = m.meta[key]).value

\* the page and the page size the claim gives for the request
ExpectedPage ==
    LET v == Denoted(msg, "page")
    IN  IF v # None /\ Unwrap(v) # <<0, 0>> THEN Unwrap(v) ELSE <<0, 1>>

ExpectedPageSize ==
    LET v == Denoted(msg, "page_size")
    IN  IF v # None /\ Unwrap(v)[1] = 0 /\ Unwrap(v)[2] \in 1..100
        THEN Unwrap(v) ELSE default_page_size

\* both factors of the offset are below 2^15, so the product is below 2^30
SmallFactors ==
    /\ ExpectedPage[1] = 0 /\ ExpectedPage[2] <= 32768
    /\ ExpectedPageSize[1] = 0 /\ ExpectedPageSize[2] < 32768

\* C30: pagination_params(default) returns (page, page_size, offset): page
\* is the parsed page query value if it is an integer > 0 and else 1,
\* page_size the parsed page_size query value if it is an integer in 1..=100
\* and else the caller's default unchanged, whatever its size, and offset
\* is (page - 1) * page_size in the arithmetic of the machine word: the
\* exact product while it fits in the word; beyond that a build without
\* overflow checks returns the product modulo 2^32 and one with overflow
\* checks panics
C30_PaginationParams ==
    pc = "paged" =>
        /\ ~paging.panicked =>
              /\ paging.page = ExpectedPage
              /\ paging.page_size = ExpectedPageSize
              /\ paging.offset[2] % 256 =
                     (((ExpectedPage[2] + 255) % 256) * (ExpectedPageSize[2] % 256)) % 256
        /\ SmallFactors =>
              /\ ~paging.panicked
              /\ paging.offset[1] =
                     ((ExpectedPage[2] - 1) * ExpectedPageSize[2]) \div HalfWord
              /\ paging.offset[2] =
                     ((ExpectedPage[2] - 1) * ExpectedPageSize[2]) % HalfWord
        /\ ExpectedPage = <<0, 1>> => (~paging.panicked /\ paging.offset = <<0, 0>>)
        /\ paging.panicked => (overflow_checks /\ ~SmallFactors)
        /\ (ExpectedPage = <<1, 1>> /\ ExpectedPageSize = <<1, 0>>) =>
              IF overflow_checks THEN paging.panicked
              ELSE ~paging.panicked /\ paging.offset = <<0, 0>>
        /\ (ExpectedPage = <<65535, 65535>> /\ ExpectedPageSize = <<0, 100>>) =>
              IF overflow_checks THEN paging.panicked
              ELSE ~paging.panicked /\ paging.offset = <<65535, 65336>>
        /\ (ExpectedPage = <<1, 1>> /\ ExpectedPageSize = <<0, 100>>) =>
              (~paging.panicked /\ paging.offset = <<100, 0>>)

\* page "+3" with page_size "101" and the default 500: the page size is
\* the default, itself above 100, and the offset is 1000
C30_Witness ==
    /\ pc = "paged"
    /\ Message_query(msg, "page") = <<43, 51>>
    /\ Message_query(msg, "page_size") = <<49, 48, 49>>
    /\ default_page_size = <<0, 500>>
    /\ paging = [panicked |-> FALSE, page |-> <<0, 3>>, page_size |-> <<0, 500>>,
                 offset |-> <<0, 1000>>]

\* page 65537 with the default 65536 in a build without overflow checks:
\* the product 2^32 wraps to 0
C30_WitnessWrap ==
    /\ pc = "paged" /\ ~overflow_checks
    /\ paging = [panicked |-> FALSE, page |-> <<1, 1>>, page_size |-> <<1, 0>>,
                 offset |-> <<0, 0>>]

\* the same call in a build with overflow checks panics
C30_WitnessPanic ==
    /\ pc = "paged" /\ overflow_checks
    /\ ExpectedPage = <<1, 1>> /\ ExpectedPageSize = <<1, 0>>
    /\ paging.panicked

\* no page and page_size "0" with the default 0: page 1, page size 0
C30_WitnessDefaults ==
    /\ pc = "paged"
    /\ Denoted(msg, "page") = None
    /\ Message_query(msg, "page_size") = <<48>>
    /\ paging = [panicked |-> FALSE, page |-> <<0, 1>>, page_size |-> <<0, 0>>,
                 offset |-> <<0, 0>>]

\* end of scenarios

====
